---------------------------- MODULE Spec2Model ----------------------------
(***************************************************************************)
(* Report-generation engine of elixa-api: the Yandex.Metrika client with   *)
(* its retry loop and metric batching (app/adapters/y_metrika/client.py,   *)
(* app/core/utils.py), the hierarchical fetch and the header/row builders  *)
(* of the report generators (app/services/yandex_report_generators).       *)
(*                                                                         *)
(* the multi-source collection and merge (app/services/report_assembly,    *)
(* app/services/report_service.py) and the paid strategy's aggregate row.  *)
(*                                                                         *)
(* The specifications of the module:                                       *)
(*   SpecClient  one get_metrika_data call, one step per HTTP attempt      *)
(*   SpecHier    one _process_hierarchical_data call with its detail tasks *)
(*   SpecRows    headers and data rows built for one report configuration  *)
(*   SpecCollect one multi-source _generate_report_data call: the run_one  *)
(*               tasks of collect_reports, then union_merge                *)
(*   SpecPaid    one PaidReportGenerator.generate_report call              *)
(*   SpecDirect  one DirectReportGenerator.generate_report call            *)
(*   SpecPure    one call of build_selected_metrics, of a derived-metric   *)
(*               function or of calculate_metrics                          *)
(***************************************************************************)
EXTENDS Integers, Sequences, FiniteSets, TLC

VARIABLES
    \* ---- YandexMetrikaClient.get_metrika_data ----
    metrics,            \* the metric list of the call
    cl_pc,              \* "idle" | "request" | "sleep" | "done"
    batch_i,            \* 1-based index of the batch whose request is running
    attempt,            \* loop variable of _single_request
    base_result,        \* first_batch_response.model_dump()["data"]
    batch_results,      \* list of the later batches' dumps that were kept
    fetch_result,       \* what get_metrika_data gave its caller
    request_log,        \* history: per _single_request call, its attempts and delays
    responses,          \* history: per finished batch request, what it returned
    \* ---- report generators ----
    the_report,         \* the Report being generated (read only)
    headers,            \* headers built by _build_main_headers
    rows,               \* rows collected so far
    gen_pc,             \* "off" | "start" | "rows" | "done"
    \* ---- BaseReportGenerator._process_hierarchical_data ----
    h_pc,               \* "off" | "main" | "details" | "done"
    main_data,          \* main_data.data: the main-level items
    task,               \* per main row, its fetch_details task
    details_results,    \* per main row, what its detail fetch returned
    semaphore,          \* value of asyncio.Semaphore(5)
    h_result,           \* what _process_hierarchical_data gave its caller
    \* ---- collect_reports (multi-source collection) ----
    sources,            \* the source entries: provider slug and traffic kind
    integrations,       \* which integrations the call was given
    report_source,      \* report.source, the shared Report's traffic kind
    source_before,      \* history: report.source when collect_reports was called
    source_at_return,   \* history: report.source when collect_reports returned
    c_task,             \* per source entry, its run_one task
    previous_source,    \* per run_one, its local previous_source
    seen,               \* history: per entry, the values of report.source its
                        \* provider invocation read
    c_results,          \* per run_one, what it returned
    c_sem,              \* value of asyncio.Semaphore(concurrency)
    c_pc,               \* "off" | "idle" | "gather" | "returned" | "raised"
    collected,          \* the list collect_reports returned
    overtaken,          \* history: some entry ended while an earlier one was
                        \* still waiting or running
    \* ---- outcome of a generation ----
    report_data,        \* what generate_report / _generate_report_data returned
    status,             \* Report.status: "proceed" | "finish" | "failed"
    \* ---- calls of the pure functions (selectors.py, core/utils.py) ----
    p_call,             \* the function called and its arguments
    p_result,           \* what the call returned
    \* ---- DirectReportGenerator.generate_report ----
    d_pc,               \* "off" | "clients" | "main" | "details" | "done"
    d_clients,          \* what get_clients answered
    d_logins,           \* client_logins
    d_order,            \* 1-based index of the order whose groups are fetched
    d_calls,            \* history: the calls made on the Metrika client
    \* ---- BackgroundTaskService (services/background_tasks.py) ----
    running_tasks,      \* BackgroundTaskService.running_tasks
    bg_tasks,           \* the tasks start_*_generation created on the event loop
    bg_status           \* per report id, Report.status in the database

clientVars == <<metrics, cl_pc, batch_i, attempt, base_result, batch_results,
                fetch_result, request_log, responses>>

genVars == <<the_report, headers, rows, gen_pc>>

hierVars == <<h_pc, main_data, task, details_results, semaphore, h_result>>

collectVars == <<sources, integrations, report_source, source_before,
                 source_at_return, c_task, previous_source, seen, c_results,
                 c_sem, c_pc, collected, overtaken>>

outVars == <<report_data, status>>

pureVars == <<p_call, p_result>>

\* the variables of the specifications that follow SpecPaid
directVars == <<d_pc, d_clients, d_logins, d_order, d_calls>>

taskVars == <<running_tasks, bg_tasks, bg_status>>

restVars == <<pureVars, directVars, taskVars>>

vars == <<clientVars, genVars, hierVars, collectVars, outVars, restVars>>

--------------------------------------------------------------------------
\* Bounds of the model
MaxMetrics == 45       \* longest metric list requested
MaxRows == 2           \* most rows (dimension keys) in one provider response
MaxAttrs == 2          \* most selected attributes of a report
MaxGoals == 1          \* most goals of a report
MaxDerived == 1        \* most user-selected derived metrics of a report
MaxAdditional == 1     \* most tokens of report.additional_metrics
MaxMain == 6           \* most main-level rows of a hierarchy fetch
MaxDetail == 2         \* most rows of one detail answer
MaxPlatforms == 2      \* most platform rows of the paid strategy's main fetch
MaxMixed == 2          \* longest source list enumerated with every entry free
MaxSources == 6        \* longest source list of a collection
MaxBase == 2           \* most base metrics passed to build_selected_metrics
MaxGoalMetrics == 1    \* most goal metrics passed to build_selected_metrics
MaxSelAttrs == 2       \* most selected attributes passed to build_selected_metrics
MaxValue == 3          \* largest aggregate passed to the derived-metric functions
MaxClients == 2        \* most clients in an answer of get_clients
MaxOrders == 2         \* most campaign orders of the direct strategy's main fetch
MaxReportIds == 1      \* report ids the background tasks are started for
MaxTasks == 3          \* most tasks start_*_generation creates in a run

\* app/core/constants.py
MAX_METRICS_PER_REQUEST == 20
MAX_RETRY_ATTEMPTS == 3

Min(a, b) == IF a < b THEN a ELSE b

--------------------------------------------------------------------------
\* Values of the result of a request or of a fetch
Pending == [kind |-> "Pending"]
None == [kind |-> "None"]
Raised == [kind |-> "Raised"]
ApiResponse(data) == [kind |-> "Response", data |-> data]

HasData(r) == r.kind = "Response" /\ Len(r.data) > 0

\* The provider: the value it reports for metric m in the row of dimension key k.
\* Distinct (k, m) give distinct values, so a value names its key and its metric.
ProviderValue(k, m) == k * 100 + m

\* A 200 answer to a request for the metrics ms whose rows are the keys ks, in order
\* name of the dimension value with id k
DimName(k) == "N" \o ToString(k)

\* one item of "data": item["dimensions"][0] holds the id and the name
DataItem(k, values) == [dimensions |-> <<[id |-> k, name |-> DimName(k)]>>, metrics |-> values]

RowKey(item) == item.dimensions[1].id

ProviderResponse(ks, ms) ==
    ApiResponse([j \in 1..Len(ks) |->
        DataItem(ks[j], [i \in 1..Len(ms) |-> ProviderValue(ks[j], ms[i])])])

\* The row-key sequences a provider answer may carry: distinct keys, any order
RowKeySeqs ==
    UNION {{s \in [1..n -> 1..MaxRows] : \A a, b \in 1..n : a # b => s[a] # s[b]}
           : n \in 0..MaxRows}

\* The metric lists requested: metric names are opaque to the client, so the
\* list of length n is <<1, .., n>>
MetricLists == {[i \in 1..n |-> i] : n \in 1..MaxMetrics}

--------------------------------------------------------------------------
\* _batch_requests: metric_batches
NumBatches(ms) ==
    (Len(ms) + MAX_METRICS_PER_REQUEST - 1) \div MAX_METRICS_PER_REQUEST

MetricBatch(ms, b) ==
    SubSeq(ms, (b - 1) * MAX_METRICS_PER_REQUEST + 1,
               Min(b * MAX_METRICS_PER_REQUEST, Len(ms)))

\* get_metrika_data: one request or the batching path
IsBatched(ms) == Len(ms) > MAX_METRICS_PER_REQUEST

\* the metrics of the request that is running
CurrentMetrics == IF IsBatched(metrics) THEN MetricBatch(metrics, batch_i) ELSE metrics

\* mutant: the batch's values are put before the values the row already has
MergeOne_Prepend(base, batch) ==
    IF Len(base) # Len(batch)
    THEN base
    ELSE [j \in 1..Len(base) |->
            [base[j] EXCEPT !.metrics = batch[j].metrics \o base[j].metrics]]

\* merge_metric_batches: one batch joined onto the base rows
MergeOne(base, batch) ==
    IF Len(base) # Len(batch)
    THEN base
    ELSE [j \in 1..Len(base) |->
            [base[j] EXCEPT !.metrics = base[j].metrics \o batch[j].metrics]]

RECURSIVE MergeFrom(_, _, _)
MergeFrom(base, batches, n) ==
    IF n > Len(batches) THEN base
    ELSE MergeFrom(MergeOne(base, batches[n]), batches, n + 1)

merge_metric_batches(base, batches) == MergeFrom(base, batches, 1)

--------------------------------------------------------------------------
\* mutants of the retry decision: a retry too many; a non-200 answer retried
\* (defined before the operator they replace)
\*
\* _single_request: what one HTTP attempt with the given outcome leads to.
\*   "return" r   the request returns r
\*   "sleep"      asyncio.sleep(RETRY_DELAY_SECONDS), then the next attempt
\*   "raise"      the exception leaves _single_request
AttemptResult_OneMoreRetry(att, outcome, resp) ==
    CASE outcome = "ok"      -> [do |-> "return", value |-> resp]
      [] outcome = "non200"  -> [do |-> "return", value |-> None]
      [] outcome = "timeout" -> IF att < MAX_RETRY_ATTEMPTS
                                THEN [do |-> "sleep", value |-> None]
                                ELSE [do |-> "return", value |-> None]
      [] outcome = "error"   -> [do |-> "raise", value |-> Raised]

AttemptResult_RetryNon200(att, outcome, resp) ==
    CASE outcome = "ok"      -> [do |-> "return", value |-> resp]
      [] outcome \in {"non200", "timeout"} ->
                                IF att < MAX_RETRY_ATTEMPTS - 1
                                THEN [do |-> "sleep", value |-> None]
                                ELSE [do |-> "return", value |-> None]
      [] outcome = "error"   -> [do |-> "raise", value |-> Raised]

AttemptResult(att, outcome, resp) ==
    CASE outcome = "ok"      -> [do |-> "return", value |-> resp]
      [] outcome = "non200"  -> [do |-> "return", value |-> None]
      [] outcome = "timeout" -> IF att < MAX_RETRY_ATTEMPTS - 1
                                THEN [do |-> "sleep", value |-> None]
                                ELSE [do |-> "return", value |-> None]
      [] outcome = "error"   -> [do |-> "raise", value |-> Raised]

\* mutant: an answer without rows passes as a base
FirstBatchFailed_EmptyPasses(r) == r.kind # "Response"

\* _batch_requests: the first batch's answer is unusable
FirstBatchFailed(r) == ~HasData(r)

\* _batch_requests: a later batch's answer is kept for the merge
KeepBatch(r) == HasData(r)

\* The caller of _single_request resumes with the value r.
RequestReturns(r) ==
    /\ responses' = Append(responses, r)
    /\ IF ~IsBatched(metrics)
       THEN /\ fetch_result' = r
            /\ cl_pc' = "done"
            /\ UNCHANGED <<batch_i, attempt, base_result, batch_results>>
       ELSE IF batch_i = 1
       THEN IF FirstBatchFailed(r)
            THEN /\ fetch_result' = None
                 /\ cl_pc' = "done"
                 /\ UNCHANGED <<batch_i, attempt, base_result, batch_results>>
            ELSE /\ base_result' = r.data
                 /\ batch_results' = <<>>
                 /\ batch_i' = 2
                 /\ attempt' = 0
                 /\ cl_pc' = "request"
                 /\ UNCHANGED fetch_result
       ELSE LET kept == IF KeepBatch(r) THEN Append(batch_results, r.data)
                        ELSE batch_results
            IN IF batch_i < NumBatches(metrics)
               THEN /\ batch_results' = kept
                    /\ batch_i' = batch_i + 1
                    /\ attempt' = 0
                    /\ cl_pc' = "request"
                    /\ UNCHANGED <<base_result, fetch_result>>
               ELSE /\ batch_results' = kept
                    /\ fetch_result' = ApiResponse(merge_metric_batches(base_result, kept))
                    /\ cl_pc' = "done"
                    /\ UNCHANGED <<batch_i, attempt, base_result>>

\* history: the event is added to the log of the running request, and a request
\* that starts gets a log of its own
Logged(event) ==
    LET log == [request_log EXCEPT ![Len(request_log)] = Append(@, event)]
    IN IF cl_pc' = "request" /\ batch_i' # batch_i THEN Append(log, <<>>) ELSE log

\* one HTTP attempt of the running request ends with the given outcome
Perform(outcome, resp) ==
    LET res == AttemptResult(attempt, outcome, resp) IN
    /\ cl_pc = "request"
    /\ CASE res.do = "return" -> RequestReturns(res.value)
         [] res.do = "sleep"  -> /\ cl_pc' = "sleep"
                                 /\ UNCHANGED <<batch_i, attempt, base_result,
                                                batch_results, fetch_result, responses>>
         [] res.do = "raise"  -> /\ cl_pc' = "done"
                                 /\ fetch_result' = Raised
                                 /\ responses' = Append(responses, Raised)
                                 /\ UNCHANGED <<batch_i, attempt, base_result, batch_results>>
    /\ request_log' = Logged(outcome)
    /\ UNCHANGED <<metrics, genVars, hierVars, collectVars, restVars, outVars>>

\* the parts of the model that a specification leaves out stay as they are here
ClientOff ==
    /\ metrics = <<>>
    /\ cl_pc = "off"
    /\ batch_i = 0
    /\ attempt = 0
    /\ base_result = <<>>
    /\ batch_results = <<>>
    /\ fetch_result = Pending
    /\ request_log = <<>>
    /\ responses = <<>>

GenOff ==
    /\ the_report = <<>>
    /\ headers = <<>>
    /\ rows = <<>>
    /\ gen_pc = "off"

HierOff ==
    /\ h_pc = "off"
    /\ main_data = <<>>
    /\ task = <<>>
    /\ details_results = <<>>
    /\ semaphore = 0
    /\ h_result = Pending

CollectOff ==
    /\ sources = <<>>
    /\ integrations = <<>>
    /\ report_source = ""
    /\ source_before = ""
    /\ source_at_return = ""
    /\ c_task = <<>>
    /\ previous_source = <<>>
    /\ seen = <<>>
    /\ c_results = <<>>
    /\ c_sem = 0
    /\ c_pc = "off"
    /\ collected = <<>>
    /\ overtaken = FALSE

OutOff ==
    /\ report_data = Pending
    /\ status = "proceed"

\* no pure function is being called
PureOff ==
    /\ p_call = [fn |-> "none"]
    /\ p_result = Pending

DirectOff ==
    /\ d_pc = "off"
    /\ d_clients = Pending
    /\ d_logins = <<>>
    /\ d_order = 0
    /\ d_calls = <<>>

\* no background task is modelled
TaskOff ==
    /\ running_tasks = {}
    /\ bg_tasks = <<>>
    /\ bg_status = <<>>

RestOff ==
    /\ PureOff
    /\ DirectOff
    /\ TaskOff

\* a call of get_metrika_data with some metric list is about to be made
ClientInit ==
    /\ metrics \in MetricLists
    /\ cl_pc = "idle"
    /\ batch_i = 0
    /\ attempt = 0
    /\ base_result = <<>>
    /\ batch_results = <<>>
    /\ fetch_result = Pending
    /\ request_log = <<>>
    /\ responses = <<>>
    /\ GenOff
    /\ HierOff
    /\ CollectOff
    /\ OutOff
    /\ RestOff

\* get_metrika_data is called: the first request starts
GetMetrikaData ==
    /\ cl_pc = "idle"
    /\ cl_pc' = "request"
    /\ batch_i' = 1
    /\ attempt' = 0
    /\ request_log' = <<<<>>>>
    /\ UNCHANGED <<metrics, base_result, batch_results, fetch_result, responses>>
    /\ UNCHANGED <<genVars, hierVars, collectVars, restVars, outVars>>

\* an attempt answered 200 with rows for the keys ks
AttemptOk ==
    \E ks \in RowKeySeqs : Perform("ok", ProviderResponse(ks, CurrentMetrics))

\* an attempt answered with another status code
AttemptNon200 == Perform("non200", None)

\* an attempt ended in httpx.ReadTimeout
AttemptTimeout == Perform("timeout", None)

\* an attempt ended in another exception (transport error)
AttemptError == Perform("error", None)

\* asyncio.sleep(RETRY_DELAY_SECONDS) is over: next iteration of the loop
RetryDelay ==
    /\ cl_pc = "sleep"
    /\ cl_pc' = "request"
    /\ attempt' = attempt + 1
    /\ request_log' = [request_log EXCEPT ![Len(request_log)] = Append(@, "sleep")]
    /\ UNCHANGED <<metrics, batch_i, base_result, batch_results, fetch_result, responses>>
    /\ UNCHANGED <<genVars, hierVars, collectVars, restVars, outVars>>

ClientNext ==
    \/ GetMetrikaData
    \/ AttemptOk
    \/ AttemptNon200
    \/ AttemptTimeout
    \/ AttemptError
    \/ RetryDelay

SpecClient == ClientInit /\ [][ClientNext]_vars

--------------------------------------------------------------------------
\* Report generators: configuration (app/core/constants.py). Display names are
\* transliterated.

BASE_ADDITIONAL_METRICS == <<"cpc", "cr", "cpo", "cac", "romi", "drr", "roi">>

PAID_METRICS == <<"ym:ad:RUBConvertedAdCost", "ym:ad:ecommerceRUBConvertedRevenue">>

FREE_METRICS == <<>>

PAID_ATTRIBUTES_MAPPING ==
    [clicks |-> "ym:ad:clicks",
     visits |-> "ym:ad:visits",
     decline |-> "ym:ad:bounceRate",
     timeonsite |-> "ym:ad:avgVisitDurationSeconds",
     depthofview |-> "ym:ad:pageDepth"]

FREE_ATTRIBUTES_MAPPING ==
    [visits |-> "ym:s:visits",
     decline |-> "ym:s:bounceRate",
     timeonsite |-> "ym:s:avgVisitDurationSeconds",
     depthofview |-> "ym:s:pageDepth"]

DerivedNames ==
    ("cpc" :> "CPC, rub") @@ ("cr" :> "CR, %") @@ ("cpo" :> "CPO, rub") @@
    ("cpa" :> "CPA, rub") @@ ("cac" :> "CAC, rub") @@ ("romi" :> "ROMI, %") @@
    ("drr" :> "DRR, %") @@ ("roi" :> "ROI, %")

PAID_METRIC_NAMES ==
    ("ym:ad:RUBConvertedAdCost" :> "Raskhody") @@
    ("ym:ad:clicks" :> "Kliki") @@
    ("ym:ad:visits" :> "Vizity") @@
    ("ym:ad:ecommerceRUBConvertedRevenue" :> "Vyruchka") @@
    DerivedNames @@
    ("ym:ad:bounceRate" :> "Otkazy, %") @@
    ("ym:ad:avgVisitDurationSeconds" :> "Vremya na sayte, sek") @@
    ("ym:ad:pageDepth" :> "Glubina prosmotra")

FREE_METRIC_NAMES ==
    ("ym:s:visits" :> "Vizity") @@
    ("ym:s:ecommerceRUBConvertedRevenue" :> "Vyruchka") @@
    DerivedNames @@
    ("ym:s:bounceRate" :> "Otkazy, %") @@
    ("ym:s:avgVisitDurationSeconds" :> "Vremya na sayte, sek") @@
    ("ym:s:pageDepth" :> "Glubina prosmotra")

DIRECT_METRIC_NAMES ==
    ("ym:ad:RUBConvertedAdCost" :> "Raskhody") @@
    ("ym:ad:clicks" :> "Kliki") @@
    ("ym:ad:visits" :> "Vizity") @@
    ("ym:ad:ecommerceRUBConvertedRevenue" :> "Vyruchka") @@
    DerivedNames @@
    ("ym:ad:bounceRate" :> "Otkazy, %") @@
    ("ym:ad:avgVisitDurationSeconds" :> "Vremya na sayte") @@
    ("ym:ad:pageDepth" :> "Glubina prosmotra")

\* ReportGeneratorFactory.get_generator: the generator class serving a source
get_generator(source) ==
    CASE source = "paid"   -> "paid"
      [] source = "free"   -> "free"
      [] source = "all"    -> "free"
      [] source = "direct" -> "direct"

get_base_metrics(gen) == IF gen = "free" THEN FREE_METRICS ELSE PAID_METRICS

get_attributes_mapping(gen) ==
    IF gen = "free" THEN FREE_ATTRIBUTES_MAPPING ELSE PAID_ATTRIBUTES_MAPPING

get_metric_names(gen) ==
    CASE gen = "paid"   -> PAID_METRIC_NAMES
      [] gen = "free"   -> FREE_METRIC_NAMES
      [] gen = "direct" -> DIRECT_METRIC_NAMES

\* get_traffic_type: the direct generator reports "paid"
get_traffic_type(gen) == IF gen = "free" THEN "free" ELSE "paid"

get_detail_dimensions(gen) ==
    CASE gen = "paid"   -> <<>>
      [] gen = "free"   -> <<"ym:s:lastSignSourceEngine">>
      [] gen = "direct" -> <<"ym:ad:CROSS_DEVICE_LAST_SIGNIFICANTDirectBannerGroup">>

_get_main_header_name(gen) ==
    CASE gen = "paid"   -> "Tip platformy"
      [] gen = "free"   -> "Istochnik trafika"
      [] gen = "direct" -> "Reklamnaya kampaniya/Gruppa obyavleniy"

--------------------------------------------------------------------------
\* Sequence helpers

RECURSIVE ConcatAll(_)
ConcatAll(ss) == IF ss = <<>> THEN <<>> ELSE Head(ss) \o ConcatAll(Tail(ss))

Range(s) == {s[i] : i \in 1..Len(s)}

\* dict.values()
FnRange(f) == {f[x] : x \in DOMAIN f}

RECURSIVE SumSeq(_)
SumSeq(s) == IF s = <<>> THEN 0 ELSE Head(s) + SumSeq(Tail(s))

\* the sequences without repetition over the set S, of length at most n
DistinctSeqs(S, n) ==
    UNION {{q \in [1..k -> S] : \A a, b \in 1..k : a # b => q[a] # q[b]} : k \in 0..n}

--------------------------------------------------------------------------
\* Metric names (YandexMetrikaClient.get_goal_metrics, selectors.py)

GoalPrefix(traffic_type) == IF traffic_type = "paid" THEN "ym:ad:goal" ELSE "ym:s:goal"

GoalVisits(traffic_type, goal_id) == GoalPrefix(traffic_type) \o goal_id \o "visits"

GoalConversionRate(traffic_type, goal_id) ==
    GoalPrefix(traffic_type) \o goal_id \o "conversionRate"

\* get_goal_metrics: two metrics per goal, in goal order
get_goal_metrics(goals, traffic_type) ==
    ConcatAll([i \in 1..Len(goals) |->
        <<GoalVisits(traffic_type, goals[i]), GoalConversionRate(traffic_type, goals[i])>>])

\* get_goal_metrics / get_goal_names: the keys of goal_names
goal_names_keys(goals, traffic_type) ==
    Range(get_goal_metrics(goals, traffic_type))
        \cup {"ym:ad:goal" \o goals[i] \o "users" : i \in 1..Len(goals)}

\* dedup_keep_order: list(dict.fromkeys(items))
RECURSIVE dedup_keep_order(_)
dedup_keep_order(items) ==
    IF items = <<>> THEN <<>>
    ELSE LET init == dedup_keep_order(SubSeq(items, 1, Len(items) - 1))
             last == items[Len(items)]
         IN IF last \in Range(init) THEN init ELSE Append(init, last)

\* mutant: the duplicates are not removed
build_selected_metrics_NoDedup(base_metrics, goal_metrics, selected_attributes, attributes_mapping) ==
    base_metrics \o goal_metrics \o
    ConcatAll([i \in 1..Len(selected_attributes) |->
        IF selected_attributes[i] \in DOMAIN attributes_mapping
        THEN <<attributes_mapping[selected_attributes[i]]>>
        ELSE <<>>])

build_selected_metrics(base_metrics, goal_metrics, selected_attributes, attributes_mapping) ==
    dedup_keep_order(
        base_metrics \o goal_metrics \o
        ConcatAll([i \in 1..Len(selected_attributes) |->
            IF selected_attributes[i] \in DOMAIN attributes_mapping
            THEN <<attributes_mapping[selected_attributes[i]]>>
            ELSE <<>>]))

\* BaseReportGenerator._build_selected_metrics with the goal metrics of the report
SelectedMetrics(gen, report) ==
    build_selected_metrics(get_base_metrics(gen),
                           get_goal_metrics(report.goals, get_traffic_type(gen)),
                           report.selected_attributes,
                           get_attributes_mapping(gen))

\* metric_index = {name: idx for idx, name in enumerate(selected_metrics)};
\* 0 stands for "no index" (dict.get gives None), otherwise the 1-based position
MetricIndex(selected, name) ==
    IF name \in Range(selected)
    THEN CHOOSE i \in 1..Len(selected) :
            selected[i] = name /\ \A k \in (i + 1)..Len(selected) : selected[k] # name
    ELSE 0

--------------------------------------------------------------------------
\* Derived metrics (app/core/utils.py). Amounts and counts are integers; a
\* derived value is held in hundredths, rounded half to even as round(x, 2).

GoalIds == {"1", "2"}

\* the metric names whose lower-cased text contains the substring tested by
\* _get_metric_value, among the names the generators can request
AllGoalVisits == {GoalVisits(t, g) : t \in {"paid", "free"}, g \in GoalIds}
CostMetrics == {"ym:ad:RUBConvertedAdCost"}
ClicksMetrics == {"ym:ad:clicks"}
VisitsMetrics == {"ym:ad:visits", "ym:s:visits"} \cup AllGoalVisits
RevenueMetrics == {"ym:ad:ecommerceRUBConvertedRevenue", "ym:s:ecommerceRUBConvertedRevenue"}

MatchesType(metric_name, metric_type) ==
    CASE metric_type = "cost"    -> metric_name \in CostMetrics
      [] metric_type = "clicks"  -> metric_name \in ClicksMetrics
      [] metric_type = "visits"  -> metric_name \in VisitsMetrics
      [] metric_type = "revenue" -> metric_name \in RevenueMetrics
      [] metric_type = "goal"    -> metric_name \in AllGoalVisits

_get_metric_value(metrics_data, selected, metric_type) ==
    SumSeq([i \in 1..Len(selected) |->
        IF i <= Len(metrics_data) /\ MatchesType(selected[i], metric_type)
        THEN metrics_data[i] ELSE 0])

\* round(n / d, 2) in hundredths for d > 0: n is the numerator times 100
RoundHalfEven(n, d) ==
    LET q == n \div d
        r == n % d
    IN IF 2 * r > d \/ (2 * r = d /\ q % 2 = 1) THEN q + 1 ELSE q

\* mutant: the clicks == 0 test of calculate_cpc is missing and the cost is
\* returned undivided
calculate_cpc_Unguarded(cost, clicks) ==
    IF clicks = 0 THEN cost * 100 ELSE RoundHalfEven(cost * 100, clicks)

calculate_cpc(cost, clicks) == IF clicks = 0 THEN 0 ELSE RoundHalfEven(cost * 100, clicks)
calculate_cpa(cost, conversions) ==
    IF conversions = 0 THEN 0 ELSE RoundHalfEven(cost * 100, conversions)
calculate_cpo(cost, orders) == IF orders = 0 THEN 0 ELSE RoundHalfEven(cost * 100, orders)
calculate_cr(conversions, visits) ==
    IF visits = 0 THEN 0 ELSE RoundHalfEven(conversions * 10000, visits)
calculate_romi(revenue, cost) ==
    IF cost = 0 THEN 0 ELSE RoundHalfEven((revenue - cost) * 10000, cost)
calculate_roi(revenue, cost) == IF cost = 0 THEN 0 ELSE RoundHalfEven(revenue * 10000, cost)
calculate_drr(cost, revenue) == IF revenue = 0 THEN 0 ELSE RoundHalfEven(cost * 10000, revenue)
calculate_cac(cost, new_customers) ==
    IF new_customers = 0 THEN 0 ELSE RoundHalfEven(cost * 100, new_customers)

\* CalculatedMetrics: the fields that were set; a field left None is absent.
\* new_customers is never passed by the generators, so cac is never set.
calculate_metrics(cost, clicks, visits, goal_achieved, revenue, selected) ==
    LET want(k) == k \in Range(selected) IN
    [k \in {m \in {"cpc", "cr", "romi", "roi", "drr", "cpa", "cpo"} :
                CASE m = "cpc"  -> want(m) /\ clicks > 0
                  [] m = "cr"   -> want(m) /\ visits > 0
                  [] m = "romi" -> want(m) /\ cost > 0
                  [] m = "roi"  -> want(m) /\ cost > 0
                  [] m = "drr"  -> want(m) /\ revenue > 0
                  [] m = "cpa"  -> want(m) /\ goal_achieved > 0
                  [] m = "cpo"  -> want(m) /\ goal_achieved > 0} |->
        CASE k = "cpc"  -> calculate_cpc(cost, clicks)
          [] k = "cr"   -> calculate_cr(goal_achieved, visits)
          [] k = "romi" -> calculate_romi(revenue, cost)
          [] k = "roi"  -> calculate_roi(revenue, cost)
          [] k = "drr"  -> calculate_drr(cost, revenue)
          [] k = "cpa"  -> calculate_cpa(cost, goal_achieved)
          [] k = "cpo"  -> calculate_cpo(cost, goal_achieved)]

\* getattr(metrics_result, metric, 0), then "value or 0"
ValueOrZero(result, metric) == IF metric \in DOMAIN result THEN result[metric] ELSE 0

NoGoal == ""

\* the value of the goal named by cpa_goal / cpo_goal, 0 when it is not fetched
GoalValue(gen, metrics_data, selected, goal_id) ==
    LET idx == MetricIndex(selected, GoalVisits(get_traffic_type(gen), goal_id))
    IN IF idx # 0 /\ idx <= Len(metrics_data) THEN metrics_data[idx] ELSE 0

_calculate_user_selected_metrics(gen, metrics_data, selected, report) ==
    IF report.selected_metrics = <<>> THEN <<>>
    ELSE
    LET cost == _get_metric_value(metrics_data, selected, "cost")
        clicks == _get_metric_value(metrics_data, selected, "clicks")
        visits == _get_metric_value(metrics_data, selected, "visits")
        revenue == _get_metric_value(metrics_data, selected, "revenue")
        by_cpa == IF "cpa" \in Range(report.selected_metrics) /\ report.cpa_goal # NoGoal
                  THEN GoalValue(gen, metrics_data, selected, report.cpa_goal) ELSE 0
        by_cpo == IF "cpo" \in Range(report.selected_metrics) /\ report.cpo_goal # NoGoal
                  THEN GoalValue(gen, metrics_data, selected, report.cpo_goal) ELSE 0
        picked == IF by_cpo > by_cpa THEN by_cpo ELSE by_cpa
        goal_achieved == IF picked = 0
                         THEN _get_metric_value(metrics_data, selected, "goal")
                         ELSE picked
        result == calculate_metrics(cost, clicks, visits, goal_achieved, revenue,
                                    report.selected_metrics)
    IN [i \in 1..Len(report.selected_metrics) |->
            ValueOrZero(result, report.selected_metrics[i])]

_calculate_additional_metrics(metrics_data, selected, additional) ==
    LET result == calculate_metrics(_get_metric_value(metrics_data, selected, "cost"),
                                    _get_metric_value(metrics_data, selected, "clicks"),
                                    _get_metric_value(metrics_data, selected, "visits"),
                                    _get_metric_value(metrics_data, selected, "goal"),
                                    _get_metric_value(metrics_data, selected, "revenue"),
                                    additional)
    IN [i \in 1..Len(additional) |-> ValueOrZero(result, additional[i])]

--------------------------------------------------------------------------
\* Headers and data rows (BaseReportGenerator)

\* goal_names of get_goal_metrics, the goal's id standing for its name
goal_names(goals, traffic_type) ==
    [k \in goal_names_keys(goals, traffic_type) |->
        LET g == CHOOSE g \in Range(goals) :
                    k \in {GoalVisits(traffic_type, g), GoalConversionRate(traffic_type, g),
                           "ym:ad:goal" \o g \o "users"}
        IN CASE k = "ym:ad:goal" \o g \o "users" -> "Konversii (" \o g \o ")"
             [] k = GoalVisits(traffic_type, g) -> "Dostizheniya tseli " \o g
             [] OTHER -> "Konversiya v tsel " \o g \o ", %"]

\* str.title() and str.upper() of a key
Title(text) == "title:" \o text
Upper(text) == "upper:" \o text

\* report.additional_metrics.split(","), each token stripped; the empty list
\* for an empty or absent string
AdditionalTokens(report) == report.additional_metrics

_build_main_headers(gen, selected, names_of_goals, report) ==
    LET metric_names == get_metric_names(gen)
        attr_mapping == get_attributes_mapping(gen)
        attrs == report.selected_attributes
        derived == report.selected_metrics
        additional == AdditionalTokens(report)
        DisplayName(m) == IF m \in DOMAIN metric_names THEN metric_names[m] ELSE Upper(m)
    IN  <<_get_main_header_name(gen)>>
        \o ConcatAll([i \in 1..Len(attrs) |->
              IF attrs[i] \in DOMAIN attr_mapping
              THEN IF attr_mapping[attrs[i]] \in DOMAIN metric_names
                   THEN <<metric_names[attr_mapping[attrs[i]]]>>
                   ELSE <<Title(attrs[i])>>
              ELSE <<>>])
        \o ConcatAll([i \in 1..Len(selected) |->
              IF selected[i] \in DOMAIN names_of_goals THEN <<names_of_goals[selected[i]]>>
              ELSE IF selected[i] \in DOMAIN metric_names THEN <<metric_names[selected[i]]>>
              ELSE IF selected[i] \notin FnRange(attr_mapping) THEN <<selected[i]>>
              ELSE <<>>])
        \o [i \in 1..Len(derived) |-> DisplayName(derived[i])]
        \o ConcatAll([i \in 1..Len(additional) |->
              IF additional[i] \in Range(BASE_ADDITIONAL_METRICS)
                 /\ additional[i] \notin Range(derived)
              THEN <<DisplayName(additional[i])>>
              ELSE <<>>])

\* metrics_data[idx] when the index exists and is inside the row, else 0
ValueAt(metrics_data, idx) ==
    IF idx # 0 /\ idx <= Len(metrics_data) THEN metrics_data[idx] ELSE 0

_build_data_row(gen, name, metrics_data, selected, report) ==
    LET attr_mapping == get_attributes_mapping(gen)
        attrs == report.selected_attributes
        additional == SelectSeq(AdditionalTokens(report),
                        LAMBDA m : m # "" /\ m \notin Range(report.selected_metrics))
    IN  <<name>>
        \o ConcatAll([i \in 1..Len(attrs) |->
              IF attrs[i] \in DOMAIN attr_mapping
              THEN <<ValueAt(metrics_data, MetricIndex(selected, attr_mapping[attrs[i]]))>>
              ELSE <<>>])
        \o ConcatAll([i \in 1..Len(selected) |->
              IF selected[i] \in FnRange(attr_mapping) THEN <<>>
              ELSE <<ValueAt(metrics_data, MetricIndex(selected, selected[i]))>>])
        \o (IF report.selected_metrics # <<>> /\ Len(metrics_data) > 0
            THEN _calculate_user_selected_metrics(gen, metrics_data, selected, report)
            ELSE <<>>)
        \o (IF additional # <<>> /\ Len(metrics_data) > 0
            THEN _calculate_additional_metrics(metrics_data, selected, additional)
            ELSE <<>>)

--------------------------------------------------------------------------
\* Reports and provider items used by the generator specifications

Sources == {"paid", "free", "all", "direct"}
AttrChoices == {"clicks", "visits", "decline"}
DerivedChoices == {"cpc", "cpa", "roi"}
AdditionalChoices == {"cr", "cpa", ""}

Reports ==
    [source : Sources,
     goals : DistinctSeqs(GoalIds, MaxGoals),
     selected_attributes : DistinctSeqs(AttrChoices, MaxAttrs),
     selected_metrics : DistinctSeqs(DerivedChoices, MaxDerived),
     additional_metrics : DistinctSeqs(AdditionalChoices, MaxAdditional),
     cpa_goal : {NoGoal, "1"},
     cpo_goal : {NoGoal, "1"}]

Gen == get_generator(the_report.source)
Selected == SelectedMetrics(Gen, the_report)
GoalNames == goal_names(the_report.goals, get_traffic_type(Gen))

\* the metric values of an item with id k: zeros for k = 0
ItemValues(k, n) == [m \in 1..n |-> IF k = 0 THEN 0 ELSE ProviderValue(k, m)]

--------------------------------------------------------------------------
\* SpecRows: the headers and the rows a generator builds for a report

\* headers = self._build_main_headers(selected_metrics, goal_names, report)
BuildHeaders ==
    /\ gen_pc = "start"
    /\ headers' = _build_main_headers(Gen, Selected, GoalNames, the_report)
    /\ gen_pc' = "rows"
    /\ UNCHANGED <<the_report, rows, clientVars, collectVars, restVars, outVars, hierVars>>

\* rows.append(self._build_data_row(name, item, ...)) for an item with values
BuildRowWithValues ==
    /\ gen_pc = "rows"
    /\ rows = <<>>
    /\ \E k \in {0, 1} :
        rows' = Append(rows, _build_data_row(Gen, DimName(k),
                                ItemValues(k, Len(Selected)), Selected, the_report))
    /\ UNCHANGED <<the_report, headers, gen_pc, clientVars, collectVars, restVars, outVars, hierVars>>

\* the same for an item without "metrics": item.get("metrics", []) is empty
BuildRowWithoutValues ==
    /\ gen_pc = "rows"
    /\ rows = <<>>
    /\ rows' = Append(rows, _build_data_row(Gen, DimName(0), <<>>, Selected, the_report))
    /\ UNCHANGED <<the_report, headers, gen_pc, clientVars, collectVars, restVars, outVars, hierVars>>

\* result = ReportData(headers=headers, rows=rows, meta_data=[])
FinishReport ==
    /\ gen_pc = "rows"
    /\ Len(rows) > 0
    /\ gen_pc' = "done"
    /\ UNCHANGED <<the_report, headers, rows, clientVars, collectVars, restVars, outVars, hierVars>>

RowsInit ==
    /\ the_report \in Reports
    /\ headers = <<>>
    /\ rows = <<>>
    /\ gen_pc = "start"
    /\ ClientOff
    /\ HierOff
    /\ CollectOff
    /\ OutOff
    /\ RestOff

RowsNext ==
    \/ BuildHeaders
    \/ BuildRowWithValues
    \/ BuildRowWithoutValues
    \/ FinishReport

SpecRows == RowsInit /\ [][RowsNext]_vars

--------------------------------------------------------------------------
\* SpecHier: one call of _process_hierarchical_data and the return of
\* FreeReportGenerator.generate_report around it

\* schemas.report.ReportData
ReportData(hs, rs, meta) ==
    [kind |-> "ReportData", headers |-> hs, rows |-> rs, meta_data |-> meta]

\* what process_report_generation records for the returned value when the
\* file is saved
StatusOf(data) == IF data = None THEN "failed" ELSE "finish"


\* semaphore = asyncio.Semaphore(5)
DETAIL_CONCURRENCY == 5

HierReports ==
    {r \in Reports :
        /\ r.source \in {"free", "all"}
        /\ r.selected_attributes = <<"visits">>
        /\ r.goals = <<>>
        /\ r.selected_metrics = <<>>
        /\ r.additional_metrics = <<>>
        /\ r.cpa_goal = NoGoal
        /\ r.cpo_goal = NoGoal}

HierItem(k) == DataItem(k, ItemValues(k, Len(Selected)))

\* id of the d-th detail row under the main row i
DetailKey(i, d) == i * 10 + d

\* the provider's data: how many detail rows the main row i has (2, 1, 0, 2, ..
\* for MaxDetail = 2)
DetailCount(i) == (MaxDetail * i) % (MaxDetail + 1)

\* the 200 answer to the detail fetch of main row i
DetailResponse(i) ==
    ApiResponse([d \in 1..DetailCount(i) |-> HierItem(DetailKey(i, d))])

MainRow(item) ==
    _build_data_row(Gen, item.dimensions[1].name, item.metrics, Selected, the_report)

DetailRow(item) ==
    _build_data_row(Gen, "  " \o item.dimensions[1].name, item.metrics, Selected, the_report)

HierResult(hs, rs) == [kind |-> "Result", headers |-> hs, rows |-> rs]

\* the detail rows appended after gather: for detail_data in details_results
DetailRows(results) ==
    ConcatAll([i \in 1..Len(results) |->
        IF HasData(results[i])
        THEN [d \in 1..Len(results[i].data) |-> DetailRow(results[i].data[d])]
        ELSE <<>>])

\* the main fetch answered with n >= 1 rows: the main rows are appended and the
\* detail tasks handed to asyncio.gather
MainFetchRows ==
    /\ h_pc = "main"
    /\ \E n \in 1..MaxMain :
        LET data == [i \in 1..n |-> HierItem(i)]
            main_rows == [i \in 1..n |-> MainRow(data[i])]
        IN /\ main_data' = data
           /\ rows' = main_rows
           /\ semaphore' = DETAIL_CONCURRENCY
           /\ IF get_detail_dimensions(Gen) = <<>>
              THEN /\ h_pc' = "done"
                   /\ h_result' = HierResult(headers, main_rows)
                   /\ UNCHANGED <<task, details_results>>
              ELSE /\ h_pc' = "details"
                   /\ task' = [i \in 1..n |-> "wait"]
                   /\ details_results' = [i \in 1..n |-> Pending]
                   /\ UNCHANGED h_result
    /\ UNCHANGED <<the_report, headers, gen_pc, clientVars, collectVars, restVars, outVars>>

\* the main fetch returned None or a response without rows
MainFetchNoData ==
    /\ h_pc = "main"
    /\ h_pc' = "done"
    /\ h_result' = HierResult(headers, rows)
    /\ UNCHANGED <<the_report, headers, rows, gen_pc, main_data, task,
                   details_results, semaphore, clientVars, collectVars, restVars, outVars>>

\* the main fetch raised
MainFetchRaises ==
    /\ h_pc = "main"
    /\ h_pc' = "done"
    /\ h_result' = Raised
    /\ UNCHANGED <<the_report, headers, rows, gen_pc, main_data, task,
                   details_results, semaphore, clientVars, collectVars, restVars, outVars>>

\* mutant: the semaphore's value is not looked at
CanAcquire_NoLimit(i) == \A j \in 1..(i - 1) : task[j] # "wait"

\* async with semaphore: a slot is free and no earlier task waits for one
CanAcquire(i) ==
    /\ semaphore > 0
    /\ \A j \in 1..(i - 1) : task[j] # "wait"

\* fetch_details(main_id) enters the semaphore and awaits get_metrika_data
StartDetail(i) ==
    /\ task[i] = "wait"
    /\ CanAcquire(i)
    /\ task' = [task EXCEPT ![i] = "inflight"]
    /\ semaphore' = semaphore - 1
    /\ UNCHANGED <<the_report, headers, rows, gen_pc, h_pc, main_data,
                   details_results, h_result, clientVars, collectVars, restVars, outVars>>

\* what a get_metrika_data call of one request can return: the result of its
\* last attempt
DetailAnswers(i) ==
    {AttemptResult(MAX_RETRY_ATTEMPTS - 1, o, DetailResponse(i)).value :
        o \in {"ok", "non200", "timeout"}}

\* the detail fetch of main row i returns: the semaphore is left
DetailReturns(i) ==
    /\ task[i] = "inflight"
    /\ \E r \in DetailAnswers(i) : details_results' = [details_results EXCEPT ![i] = r]
    /\ task' = [task EXCEPT ![i] = "done"]
    /\ semaphore' = semaphore + 1
    /\ UNCHANGED <<the_report, headers, rows, gen_pc, h_pc, main_data, h_result, clientVars, collectVars, restVars, outVars>>

\* the detail fetch of main row i raises: the semaphore is left, and gather
\* passes the first exception on to _process_hierarchical_data
DetailRaises(i) ==
    /\ task[i] = "inflight"
    /\ AttemptResult(MAX_RETRY_ATTEMPTS - 1, "error", None).do = "raise"
    /\ task' = [task EXCEPT ![i] = "raised"]
    /\ details_results' = [details_results EXCEPT ![i] = Raised]
    /\ semaphore' = semaphore + 1
    /\ IF h_pc = "details"
       THEN h_pc' = "done" /\ h_result' = Raised
       ELSE UNCHANGED <<h_pc, h_result>>
    /\ UNCHANGED <<the_report, headers, rows, gen_pc, main_data, clientVars, collectVars, restVars, outVars>>

\* gather returned every result: the detail rows are appended
Assemble ==
    /\ h_pc = "details"
    /\ \A i \in 1..Len(task) : task[i] = "done"
    /\ rows' = rows \o DetailRows(details_results)
    /\ h_result' = HierResult(headers, rows')
    /\ h_pc' = "done"
    /\ UNCHANGED <<the_report, headers, gen_pc, main_data, task, details_results,
                   semaphore, clientVars, collectVars, restVars, outVars>>

\* FreeReportGenerator.generate_report after _process_hierarchical_data: the
\* headers and rows are wrapped in a ReportData whatever the number of rows;
\* an exception gives None. process_report_generation tests "if report_data".
FreeGenerateReturns ==
    /\ h_pc = "done"
    /\ report_data = Pending
    /\ report_data' = IF h_result = Raised THEN None
                      ELSE ReportData(h_result.headers, h_result.rows, <<>>)
    /\ status' = StatusOf(report_data')
    /\ UNCHANGED <<the_report, headers, rows, gen_pc, hierVars, clientVars, collectVars, restVars>>

HierInit ==
    /\ the_report \in HierReports
    /\ headers = _build_main_headers(Gen, Selected, GoalNames, the_report)
    /\ rows = <<>>
    /\ gen_pc = "off"
    /\ h_pc = "main"
    /\ main_data = <<>>
    /\ task = <<>>
    /\ details_results = <<>>
    /\ semaphore = 0
    /\ h_result = Pending
    /\ ClientOff
    /\ CollectOff
    /\ OutOff
    /\ RestOff

HierNext ==
    \/ MainFetchRows
    \/ MainFetchNoData
    \/ MainFetchRaises
    \/ \E i \in 1..Len(task) : StartDetail(i)
    \/ \E i \in 1..Len(task) : DetailReturns(i)
    \/ \E i \in 1..Len(task) : DetailRaises(i)
    \/ Assemble
    \/ FreeGenerateReturns

SpecHier == HierInit /\ [][HierNext]_vars

--------------------------------------------------------------------------
\* SpecCollect: ReportService._generate_report_data with a source list -
\* collect_reports and its run_one tasks, then union_merge

\* collect_reports(..., concurrency: int = 5); the service passes no other value
COLLECT_CONCURRENCY == 5

Providers == {"yandex_metrika", "google_analytics", "other"}
TrafficKinds == {"paid", "free"}
SourceSpecs == [provider : Providers, traffic_kind : TrafficKinds]

\* yandex: a Yandex integration was passed; google: the Google integration
\* carries its property id ("property") or the id is looked up in the
\* database, which suspends the invocation ("lookup")
IntegrationChoices == [yandex : BOOLEAN, google : {"property", "lookup"}]

\* how many rows a provider's report has for the traffic kind it read: the
\* paid strategy's single aggregate row, the free strategy's source rows, a
\* free strategy without main rows for "all", the channels of Google
RowCount(provider, kind) ==
    IF provider = "google_analytics" THEN 2
    ELSE CASE kind = "paid" -> 1
           [] kind = "free" -> 3
           [] OTHER -> 0

\* the report a provider builds when it read the traffic kind `kind`
ProviderReport(provider, kind) ==
    ReportData(<<provider \o ":" \o kind, "Vizity">>,
               [j \in 1..RowCount(provider, kind) |->
                    <<kind \o ToString(j), 10 * j + Len(provider)>>],
               <<provider>>)

Item(provider_slug, data) == [kind |-> "Item", provider |-> provider_slug, data |-> data]

\* mutant: the rows are joined without the provider in front
union_merge_NoPrefix(results) ==
    IF results = <<>>
    THEN ReportData(<<>>, <<>>, <<"Empty union">>)
    ELSE ReportData(<<"Provayder">> \o results[1].data.headers,
                    ConcatAll([r \in 1..Len(results) |-> results[r].data.rows]),
                    <<"Union of providers">>)

\* union_merge(results)
union_merge(results) ==
    IF results = <<>>
    THEN ReportData(<<>>, <<>>, <<"Empty union">>)
    ELSE ReportData(<<"Provayder">> \o results[1].data.headers,
                    ConcatAll([r \in 1..Len(results) |->
                        [j \in 1..Len(results[r].data.rows) |->
                            <<results[r].provider>> \o results[r].data.rows[j]]]),
                    <<"Union of providers">>)

\* return [(slug, data) for item in results if item ...]
CollectedOf(results) == SelectSeq(results, LAMBDA r : r.kind = "Item")

\* the periodic list of length n that repeats the seed
Periodic(seed, n) == [i \in 1..n |-> seed[((i - 1) % Len(seed)) + 1]]

\* the calls made: every source list of up to MaxMixed entries with every
\* choice of integrations and of report.source, and longer periodic lists
ShortLists == UNION {[1..n -> SourceSpecs] : n \in 1..MaxMixed}

LongSeeds ==
    {<<[provider |-> "yandex_metrika", traffic_kind |-> "paid"]>>,
     <<[provider |-> "yandex_metrika", traffic_kind |-> "paid"],
       [provider |-> "yandex_metrika", traffic_kind |-> "free"]>>,
     <<[provider |-> "yandex_metrika", traffic_kind |-> "free"],
       [provider |-> "yandex_metrika", traffic_kind |-> "all"]>>}

Calls ==
    [sources : ShortLists, integrations : IntegrationChoices,
     source : TrafficKinds \cup {"all"}]
    \cup
    {[sources |-> Periodic(seed, n),
      integrations |-> [yandex |-> TRUE, google |-> "lookup"],
      source |-> "all"] : seed \in LongSeeds, n \in (MaxMixed + 1)..MaxSources}

\* run_one reaches a provider: the slug is known and, for Yandex, the
\* integration was passed
HasProvider(spec) ==
    \/ spec.provider = "google_analytics"
    \/ spec.provider = "yandex_metrika" /\ integrations.yandex

\* every task created by gather has run up to its first suspension
AllStarted == \A j \in 1..Len(c_task) : c_task[j] # "new"

\* mutant: the semaphore's value is not looked at
SlotFree_NoLimit(i) == \A j \in 1..(i - 1) : c_task[j] # "wait"

\* async with semaphore: a slot is free and no earlier task waits for one
SlotFree(i) ==
    /\ c_sem > 0
    /\ \A j \in 1..(i - 1) : c_task[j] # "wait"

\* provider.generate_report(report) of entry i begins while report.source is
\* cur; prev is what the task's finally block puts back.
\*   Yandex reads report.source at once (yandex_provider.py 22, 33) and is
\*     suspended in its first HTTP request;
\*   Google with a property id reads report.source and calls the blocking
\*     run_report: the invocation ends in the same step, the slot is given back;
\*   Google without it is suspended in the database lookup before any read.
\* an entry listed before i has not ended yet
EarlierUnfinished(i) == \E j \in 1..(i - 1) : c_task[j] \in {"wait", "running"}

Enter(i, cur, prev) ==
    LET provider == sources[i].provider IN
    IF provider = "yandex_metrika"
    THEN /\ seen' = [seen EXCEPT ![i] = Append(@, cur)]
         /\ c_task' = [c_task EXCEPT ![i] = "running"]
         /\ c_sem' = c_sem - 1
         /\ report_source' = cur
         /\ UNCHANGED <<c_results, overtaken>>
    ELSE IF integrations.google = "lookup"
    THEN /\ c_task' = [c_task EXCEPT ![i] = "running"]
         /\ c_sem' = c_sem - 1
         /\ report_source' = cur
         /\ UNCHANGED <<seen, c_results, overtaken>>
    ELSE \E o \in {"data", "raise"} :
         /\ seen' = [seen EXCEPT ![i] = Append(@, cur)]
         /\ c_task' = [c_task EXCEPT ![i] = "done"]
         /\ c_results' = [c_results EXCEPT ![i] =
                IF o = "data" THEN Item(provider, ProviderReport(provider, cur))
                ELSE Raised]
         /\ report_source' = prev
         /\ overtaken' = (overtaken \/ EarlierUnfinished(i))
         /\ UNCHANGED c_sem

\* FreeReportGenerator._get_main_filters
EXCLUDE_AD == "ym:s:lastSignTrafficSource!='ad'"
\* a filter expression handed to the client
Filter(expr) == [kind |-> "Filter", expr |-> expr]

_get_main_filters(include_ad) == IF include_ad THEN None ELSE Filter(EXCLUDE_AD)

\* the generator YandexMetrikaProvider.generate_report runs when it reads
\* report.source = read: for "all" a new free generator, otherwise the
\* factory's cached one; FreeReportGenerator.generate_report then sets
\* include_ad = (report.source == "all"), with no suspension in between
YandexGenerator(read) ==
    [strategy |-> get_generator(read),
     cached |-> read # "all",
     include_ad |-> read = "all"]

\* the filter of the main-level fetch of entry i's invocation: it is built
\* before the invocation's first suspension
MainFilter(i) == _get_main_filters(YandexGenerator(seen[i][1]).include_ad)

\* _generate_report_data calls collect_reports: gather creates one task per entry
GenerateReportData ==
    /\ c_pc = "idle"
    /\ c_pc' = "gather"
    /\ source_before' = report_source
    /\ c_task' = [i \in 1..Len(sources) |-> "new"]
    /\ previous_source' = [i \in 1..Len(sources) |-> ""]
    /\ seen' = [i \in 1..Len(sources) |-> <<>>]
    /\ c_results' = [i \in 1..Len(sources) |-> Pending]
    /\ c_sem' = COLLECT_CONCURRENCY
    /\ UNCHANGED <<sources, integrations, report_source, source_at_return, collected,
                   overtaken>>
    /\ UNCHANGED <<clientVars, genVars, hierVars, restVars, outVars>>

\* the task of entry i runs from its start to its first suspension: the tasks
\* start in list order
StartTask(i) ==
    /\ c_pc = "gather"
    /\ c_task[i] = "new"
    /\ \A j \in 1..(i - 1) : c_task[j] # "new"
    /\ previous_source' = [previous_source EXCEPT ![i] = report_source]
    /\ IF ~HasProvider(sources[i])
       THEN \* return None; the finally block restores what was just replaced
            /\ c_task' = [c_task EXCEPT ![i] = "done"]
            /\ c_results' = [c_results EXCEPT ![i] = None]
            /\ overtaken' = (overtaken \/ EarlierUnfinished(i))
            /\ UNCHANGED <<report_source, seen, c_sem>>
       ELSE IF SlotFree(i)
       THEN Enter(i, sources[i].traffic_kind, report_source)
       ELSE /\ c_task' = [c_task EXCEPT ![i] = "wait"]
            /\ report_source' = sources[i].traffic_kind
            /\ UNCHANGED <<seen, c_results, c_sem, overtaken>>
    /\ UNCHANGED <<sources, integrations, source_before, source_at_return, c_pc, collected>>
    /\ UNCHANGED <<clientVars, genVars, hierVars, restVars, outVars>>

\* a waiting task gets a slot and its provider is invoked
Acquire(i) ==
    /\ c_pc \in {"gather", "raised"}
    /\ AllStarted
    /\ c_task[i] = "wait"
    /\ SlotFree(i)
    /\ Enter(i, report_source, previous_source[i])
    /\ UNCHANGED <<sources, integrations, source_before, source_at_return,
                   previous_source, c_pc, collected>>
    /\ UNCHANGED <<clientVars, genVars, hierVars, restVars, outVars>>

\* the suspended invocation of entry i ends; the slot is given back and the
\* finally block writes previous_source to report.source.
\*   Yandex: the generator chosen at the start returns its report or None;
\*   Google after the lookup: no property id - None; otherwise report.source is
\*     read now (google_provider.py 88-96) and run_report answers or raises.
FinishTask(i) ==
    /\ c_pc \in {"gather", "raised"}
    /\ AllStarted
    /\ c_task[i] = "running"
    /\ LET provider == sources[i].provider IN
       IF provider = "yandex_metrika"
       THEN /\ \E o \in {"data", "none"} :
                c_results' = [c_results EXCEPT ![i] =
                    IF o = "data"
                    THEN Item(provider, ProviderReport(provider, seen[i][1]))
                    ELSE None]
            /\ UNCHANGED seen
       ELSE \E o \in {"none", "data", "raise"} :
            /\ c_results' = [c_results EXCEPT ![i] =
                    CASE o = "none"  -> None
                      [] o = "data"  -> Item(provider, ProviderReport(provider, report_source))
                      [] o = "raise" -> Raised]
            /\ seen' = IF o = "none" THEN seen
                       ELSE [seen EXCEPT ![i] = Append(@, report_source)]
    /\ c_task' = [c_task EXCEPT ![i] = "done"]
    /\ overtaken' = (overtaken \/ EarlierUnfinished(i))
    /\ c_sem' = c_sem + 1
    /\ report_source' = previous_source[i]
    /\ UNCHANGED <<sources, integrations, source_before, source_at_return,
                   previous_source, c_pc, collected>>
    /\ UNCHANGED <<clientVars, genVars, hierVars, restVars, outVars>>

\* mutant: the merge is applied to whatever was collected
MergeCollected_NoCheck(list) == union_merge(list)

\* _generate_report_data: if not collected: return None; return union_merge(collected)
MergeCollected(list) == IF list = <<>> THEN None ELSE union_merge(list)

\* mutant: sources without data are kept in the list, as empty reports
ListOf_KeepAll(results) ==
    [i \in 1..Len(results) |->
        IF results[i].kind = "Item" THEN results[i]
        ELSE Item("none", ReportData(<<>>, <<>>, <<>>))]

\* mutant: the results are listed from the last entry to the first
ListOf_Reversed(results) ==
    LET q == CollectedOf(results) IN [k \in 1..Len(q) |-> q[Len(q) + 1 - k]]

\* the list a finished gather is turned into
ListOf(results) == CollectedOf(results)

\* gather has every result: collect_reports returns its list, the service
\* merges it and process_report_generation records the outcome
GatherReturns ==
    /\ c_pc = "gather"
    /\ \A i \in 1..Len(c_task) : c_task[i] = "done" /\ c_results[i] # Raised
    /\ c_pc' = "returned"
    /\ source_at_return' = report_source
    /\ collected' = ListOf(c_results)
    /\ report_data' = MergeCollected(collected')
    /\ status' = IF report_data' = None THEN "failed" ELSE "finish"
    /\ UNCHANGED <<sources, integrations, report_source, source_before, c_task,
                   previous_source, seen, c_results, c_sem, overtaken>>
    /\ UNCHANGED <<clientVars, genVars, hierVars, restVars>>

\* a task raised: gather passes the exception on, collect_reports ends with it,
\* _generate_report_data catches it and returns None; the other tasks run on
GatherRaises ==
    /\ c_pc = "gather"
    /\ AllStarted
    /\ \E i \in 1..Len(c_task) : c_results[i] = Raised
    /\ c_pc' = "raised"
    /\ source_at_return' = report_source
    /\ report_data' = None
    /\ status' = "failed"
    /\ UNCHANGED <<sources, integrations, report_source, source_before, c_task,
                   previous_source, seen, c_results, c_sem, collected, overtaken>>
    /\ UNCHANGED <<clientVars, genVars, hierVars, restVars>>

CollectInit ==
    /\ \E call \in Calls :
        /\ sources = call.sources
        /\ integrations = call.integrations
        /\ report_source = call.source
    /\ source_before = ""
    /\ source_at_return = ""
    /\ c_task = <<>>
    /\ previous_source = <<>>
    /\ seen = <<>>
    /\ c_results = <<>>
    /\ c_sem = 0
    /\ c_pc = "idle"
    /\ collected = <<>>
    /\ overtaken = FALSE
    /\ ClientOff
    /\ GenOff
    /\ HierOff
    /\ OutOff
    /\ RestOff

CollectNext ==
    \/ GenerateReportData
    \/ \E i \in 1..Len(c_task) : StartTask(i)
    \/ \E i \in 1..Len(c_task) : Acquire(i)
    \/ \E i \in 1..Len(c_task) : FinishTask(i)
    \/ GatherReturns
    \/ GatherRaises

SpecCollect == CollectInit /\ [][CollectNext]_vars

\* the event loop runs every task that is ready, and every request in flight ends
SpecCollectFair == SpecCollect /\ WF_vars(CollectNext)

--------------------------------------------------------------------------
\* SpecPaid: one PaidReportGenerator.generate_report call

\* the reports of the paid strategy; report_repository creates every report
\* with additional_metrics = ""
PaidReports == {r \in Reports : r.source = "paid" /\ r.additional_metrics = <<>>}

\* the per-platform items of the main fetch: k rows with keys 1..k
PaidItems(k) == [i \in 1..k |-> DataItem(i, ItemValues(i, Len(Selected)))]

\* the numeric columns in front of the derived ones in a row built by
\* _build_data_row: one per selected attribute that is mapped, then one per
\* selected metric that is not an attribute's metric
BaseColumnCount(gen, selected, report) ==
    Cardinality({i \in 1..Len(report.selected_attributes) :
                    report.selected_attributes[i] \in DOMAIN get_attributes_mapping(gen)})
    + Cardinality({i \in 1..Len(selected) :
                    selected[i] \notin FnRange(get_attributes_mapping(gen))})

\* mutant: only the first platform's row is taken
SumColumns_FirstOnly(rs) ==
    [c \in 1..Len(rs[1]) |-> IF c = 1 THEN "  Yandex.Direkt" ELSE rs[1][c]]

\* total_row after the loop over the platform rows: the label, then per column
\* the sum of the rows' numeric cells
SumColumns(rs) ==
    [c \in 1..Len(rs[1]) |->
        IF c = 1 THEN "  Yandex.Direkt"
        ELSE SumSeq([i \in 1..Len(rs) |-> IF c <= Len(rs[i]) THEN rs[i][c] ELSE 0])]

\* int(x) of a value held in hundredths
IntOfHundredths(v) == IF v >= 0 THEN v \div 100 ELSE -((-v) \div 100)

\* the metric kind _extract_base_data_from_row files a metric name under
ExtractType(metric) ==
    CASE metric \in CostMetrics -> "cost"
      [] metric \in ClicksMetrics -> "clicks"
      [] metric \in VisitsMetrics \ AllGoalVisits -> "visits"
      [] metric \in RevenueMetrics -> "revenue"
      [] metric \in AllGoalVisits -> "goal"
      [] OTHER -> "none"

\* _extract_base_data_from_row: the j-th selected metric is read from the
\* column after the name and len(report.selected_attributes) columns, whatever
\* that column holds. The sums are held in hundredths: first_derived is the
\* first column whose cells are derived values (already in hundredths), the
\* cells before it are whole numbers.
_extract_base_data_from_row(row, selected, report, first_derived) ==
    LET col(j) == 1 + Len(report.selected_attributes) + j
        cell(j) == IF col(j) > Len(row) THEN 0
                   ELSE IF col(j) >= first_derived THEN row[col(j)]
                   ELSE row[col(j)] * 100
        total(t) == SumSeq([j \in 1..Len(selected) |->
                        IF ExtractType(selected[j]) = t THEN cell(j) ELSE 0])
    IN [cost |-> total("cost"), clicks |-> total("clicks"), visits |-> total("visits"),
        revenue |-> total("revenue"), goal |-> total("goal")]

\* _calculate_metrics_from_base_data: clicks, visits and goal_achieved pass
\* through int(); cost and revenue are passed as they are (they are sums of
\* base columns, whole numbers, for every attribute of AttrChoices)
_calculate_metrics_from_base_data(base_data, report) ==
    IF report.selected_metrics = <<>> THEN <<>>
    ELSE LET result == calculate_metrics(base_data.cost \div 100,
                            IntOfHundredths(base_data.clicks),
                            IntOfHundredths(base_data.visits),
                            IntOfHundredths(base_data.goal),
                            base_data.revenue \div 100,
                            report.selected_metrics)
         IN [i \in 1..Len(report.selected_metrics) |->
                ValueOrZero(result, report.selected_metrics[i])]

\* paid generate_report 110-161: the platform rows are replaced by one total
\* row whose derived cells are written again from start_idx on (round(value, 2)
\* of a value that the calculator already rounded to 2 places)
PaidTotalRow(gen, rs, selected, report) ==
    LET total_row == ConcatAll([c \in 1..Len(rs[1]) |-> <<SumColumns(rs)[c]>>])
        first_derived == 2 + BaseColumnCount(gen, selected, report)
        calculated_values ==
            IF report.selected_metrics # <<>> /\ Len(total_row) > 1
            THEN _calculate_metrics_from_base_data(
                    _extract_base_data_from_row(total_row, selected, report, first_derived),
                    report)
            ELSE <<>>
        start_col == 1 + Len(selected) + Len(report.selected_attributes)
        written == Min(Len(calculated_values), Len(total_row) - start_col)
    IN IF written <= 0 THEN total_row
       ELSE SubSeq(total_row, 1, start_col)
            \o SubSeq(calculated_values, 1, written)
            \o SubSeq(total_row, start_col + written + 1, Len(total_row))

\* get_clients answered with client logins
PaidClientsFound ==
    /\ gen_pc = "clients"
    /\ gen_pc' = "main"
    /\ UNCHANGED <<the_report, headers, rows, main_data>>
    /\ UNCHANGED <<h_pc, task, details_results, semaphore, h_result>>
    /\ UNCHANGED <<clientVars, collectVars, restVars, outVars>>

\* get_clients gave nothing, no client has a login, or it raised: None
PaidNoClients ==
    /\ gen_pc = "clients"
    /\ gen_pc' = "done"
    /\ report_data' = None
    /\ status' = StatusOf(report_data')
    /\ UNCHANGED <<the_report, headers, rows, main_data>>
    /\ UNCHANGED <<h_pc, task, details_results, semaphore, h_result>>
    /\ UNCHANGED <<clientVars, collectVars, restVars>>

\* the main fetch returned None or no rows, or raised: None (the headers were
\* built before the fetch)
PaidMainNoData ==
    /\ gen_pc = "main"
    /\ gen_pc' = "done"
    /\ headers' = _build_main_headers(Gen, Selected, GoalNames, the_report)
    /\ report_data' = None
    /\ status' = StatusOf(report_data')
    /\ UNCHANGED <<the_report, rows, main_data>>
    /\ UNCHANGED <<h_pc, task, details_results, semaphore, h_result>>
    /\ UNCHANGED <<clientVars, collectVars, restVars>>

\* the main fetch returned k >= 1 platform rows: rows are built and summed, the
\* report holds the total row
PaidMainRows ==
    /\ gen_pc = "main"
    /\ \E k \in 1..MaxPlatforms :
        LET data == PaidItems(k)
            built == ConcatAll([i \in 1..k |->
                        <<_build_data_row(Gen, data[i].dimensions[1].name,
                                          data[i].metrics, Selected, the_report)>>])
        IN /\ main_data' = data
           /\ rows' = built
           /\ headers' = _build_main_headers(Gen, Selected, GoalNames, the_report)
           /\ report_data' = ReportData(headers',
                    <<PaidTotalRow(Gen, built, Selected, the_report)>>, <<>>)
    /\ gen_pc' = "done"
    /\ status' = StatusOf(report_data')
    /\ UNCHANGED the_report
    /\ UNCHANGED <<h_pc, task, details_results, semaphore, h_result>>
    /\ UNCHANGED <<clientVars, collectVars, restVars>>

PaidInit ==
    /\ the_report \in PaidReports
    /\ headers = <<>>
    /\ rows = <<>>
    /\ gen_pc = "clients"
    /\ HierOff
    /\ ClientOff
    /\ CollectOff
    /\ OutOff
    /\ RestOff

PaidNext ==
    \/ PaidClientsFound
    \/ PaidNoClients
    \/ PaidMainNoData
    \/ PaidMainRows

SpecPaid == PaidInit /\ [][PaidNext]_vars

--------------------------------------------------------------------------
\* SpecPure: one call of a pure function of selectors.py or core/utils.py

\* metric names and attribute names of the build_selected_metrics calls
MetricNames == {"a", "b", "c"}
AttrNames == {"x", "y"}

SeqsUpTo(S, n) == UNION {[1..k -> S] : k \in 0..n}

\* the attribute maps: every partial map from AttrNames to MetricNames
AttrMaps == UNION {[D -> MetricNames] : D \in SUBSET AttrNames}

SelectCalls ==
    [fn : {"build_selected_metrics"},
     base_metrics : SeqsUpTo(MetricNames, MaxBase),
     goal_metrics : SeqsUpTo(MetricNames, MaxGoalMetrics),
     selected_attributes : SeqsUpTo(AttrNames, MaxSelAttrs),
     attributes_mapping : AttrMaps]

\* the derived-metric functions; the second parameter of each is its denominator
DerivedFns == {"cpc", "cpa", "cpo", "cr", "cac", "romi", "roi", "drr"}

\* numerators of either sign, denominators that are counts or amounts
DerivedCalls ==
    [fn : DerivedFns, first : (0 - MaxValue)..MaxValue, second : 0..MaxValue]

\* calculate_<fn>(first, second)
ApplyDerived(fn, first, second) ==
    CASE fn = "cpc"  -> calculate_cpc(first, second)
      [] fn = "cpa"  -> calculate_cpa(first, second)
      [] fn = "cpo"  -> calculate_cpo(first, second)
      [] fn = "cr"   -> calculate_cr(first, second)
      [] fn = "cac"  -> calculate_cac(first, second)
      [] fn = "romi" -> calculate_romi(first, second)
      [] fn = "roi"  -> calculate_roi(first, second)
      [] fn = "drr"  -> calculate_drr(first, second)

\* the selections passed to calculate_metrics: lists of distinct keys
KeyChoices == {"cpc", "cr", "roi", "cpa"}

MetricsCalls ==
    [fn : {"calculate_metrics"},
     cost : 0..MaxValue, clicks : 0..1, visits : 0..1, goal_achieved : 0..1,
     revenue : 0..1,
     selected_metrics : DistinctSeqs(KeyChoices, 2)]

\* what a call returned
Value(v) == [kind |-> "Value", value |-> v]

PureCalls == SelectCalls \cup DerivedCalls \cup MetricsCalls

BuildSelectedMetrics ==
    /\ p_call.fn = "build_selected_metrics"
    /\ p_result = Pending
    /\ p_result' = Value(build_selected_metrics(p_call.base_metrics, p_call.goal_metrics,
                        p_call.selected_attributes, p_call.attributes_mapping))
    /\ UNCHANGED <<p_call, clientVars, genVars, hierVars, collectVars, outVars, directVars, taskVars>>

CalculateDerived ==
    /\ p_call.fn \in DerivedFns
    /\ p_result = Pending
    /\ p_result' = Value(ApplyDerived(p_call.fn, p_call.first, p_call.second))
    /\ UNCHANGED <<p_call, clientVars, genVars, hierVars, collectVars, outVars, directVars, taskVars>>

CalculateMetrics ==
    /\ p_call.fn = "calculate_metrics"
    /\ p_result = Pending
    /\ p_result' = Value(calculate_metrics(p_call.cost, p_call.clicks, p_call.visits,
                        p_call.goal_achieved, p_call.revenue, p_call.selected_metrics))
    /\ UNCHANGED <<p_call, clientVars, genVars, hierVars, collectVars, outVars, directVars, taskVars>>

PureInit ==
    /\ p_call \in PureCalls
    /\ p_result = Pending
    /\ ClientOff
    /\ GenOff
    /\ HierOff
    /\ CollectOff
    /\ OutOff
    /\ DirectOff
    /\ TaskOff

PureNext ==
    \/ BuildSelectedMetrics
    \/ CalculateDerived
    \/ CalculateMetrics

SpecPure == PureInit /\ [][PureNext]_vars

--------------------------------------------------------------------------
--------------------------------------------------------------------------
\* SpecDirect: one DirectReportGenerator.generate_report call

DirectReports ==
    {r \in Reports :
        /\ r.source = "direct"
        /\ r.goals = <<>>
        /\ r.additional_metrics = <<>>
        /\ r.cpa_goal = NoGoal
        /\ r.cpo_goal = NoGoal}

\* a client of the answer: with or without the key "chief_login"
Clients == {[chief_login |-> "login1"], [chief_login |-> "login2"], [id |-> 7]}

\* what get_clients can give: an exception, None (status other than 200), a
\* body without the key "clients", or a body with a list of clients
ClientAnswers ==
    {Raised, None, [errors |-> <<>>]}
    \cup {[clients |-> q] : q \in SeqsUpTo(Clients, MaxClients)}

\* mutant: a client without chief_login is given the login "None"
ClientLogins_KeepAll(answer) ==
    [i \in 1..Len(answer.clients) |->
        IF "chief_login" \in DOMAIN answer.clients[i]
        THEN answer.clients[i].chief_login ELSE "None"]

\* client_logins = [str(client["chief_login"]) for client in clients
\*                  if "chief_login" in client]
ClientLogins(answer) ==
    ConcatAll([i \in 1..Len(answer.clients) |->
        IF "chief_login" \in DOMAIN answer.clients[i]
        THEN <<answer.clients[i].chief_login>> ELSE <<>>])

\* a call of the Metrika client, as recorded in d_calls
ClientCall(name, level, logins) == [call |-> name, level |-> level, logins |-> logins]

\* _format_row_values_simple: the name is kept, a float is rounded to 2 places;
\* the cells of the model are whole numbers or hundredths, which round(_, 2)
\* leaves as they are
_format_row_values_simple(row) ==
    [i \in 1..Len(row) |-> IF i = 1 THEN row[i] ELSE RoundHalfEven(row[i] * 100, 100)]

\* the rows of an order: its own row, then the rows of its groups
OrderItem(i) == DataItem(i, ItemValues(i, Len(Selected)))
GroupItems(i) ==
    [d \in 1..DetailCount(i) |-> DataItem(DetailKey(i, d), ItemValues(DetailKey(i, d), Len(Selected)))]

DirectRow(name, item) ==
    _format_row_values_simple(
        _build_data_row(Gen, name, item.metrics, Selected, the_report))

\* get_clients returns or raises; without a client login the generation ends
\* with None
DirectGetClients ==
    /\ d_pc = "clients"
    /\ \E answer \in ClientAnswers :
        /\ d_clients' = answer
        /\ d_calls' = Append(d_calls, ClientCall("get_clients", "", <<>>))
        /\ IF answer \in {Raised, None} \/ "clients" \notin DOMAIN answer
           THEN /\ d_logins' = <<>>
                /\ d_pc' = "done"
                /\ report_data' = None
                /\ status' = StatusOf(report_data')
           ELSE /\ d_logins' = ClientLogins(answer)
                /\ IF d_logins' = <<>>
                   THEN /\ d_pc' = "done"
                        /\ report_data' = None
                        /\ status' = StatusOf(report_data')
                   ELSE /\ d_pc' = "main"
                        /\ UNCHANGED <<report_data, status>>
    /\ UNCHANGED <<d_order, genVars, clientVars, hierVars, collectVars, pureVars, taskVars>>

\* the main fetch (campaign orders) returns None or no rows, or raises: None
DirectMainNoData ==
    /\ d_pc = "main"
    /\ d_calls' = Append(d_calls, ClientCall("get_metrika_data", "main", d_logins))
    /\ headers' = _build_main_headers(Gen, Selected, GoalNames, the_report)
    /\ d_pc' = "done"
    /\ report_data' = None
    /\ status' = StatusOf(report_data')
    /\ UNCHANGED <<d_clients, d_logins, d_order, the_report, rows, gen_pc>>
    /\ UNCHANGED <<clientVars, hierVars, collectVars, pureVars, taskVars>>

\* the main fetch returns n >= 1 orders; the loop starts with the first order
DirectMainRows ==
    /\ d_pc = "main"
    /\ d_calls' = Append(d_calls, ClientCall("get_metrika_data", "main", d_logins))
    /\ headers' = _build_main_headers(Gen, Selected, GoalNames, the_report)
    /\ \E n \in 1..MaxOrders : main_data' = [i \in 1..n |-> OrderItem(i)]
    /\ d_order' = 1
    /\ d_pc' = "details"
    /\ UNCHANGED <<d_clients, d_logins, the_report, rows, gen_pc, outVars>>
    /\ UNCHANGED <<h_pc, task, details_results, semaphore, h_result>>
    /\ UNCHANGED <<clientVars, collectVars, pureVars, taskVars>>

\* one turn of the loop: the order's row is appended, its groups are fetched
\* and their rows appended; after the last order the report is returned
DirectOrderGroups ==
    /\ d_pc = "details"
    /\ d_calls' = Append(d_calls, ClientCall("get_metrika_data", "detail", d_logins))
    /\ \E with_groups \in BOOLEAN :
        LET item == main_data[d_order]
            groups == IF with_groups THEN GroupItems(d_order) ELSE <<>>
        IN rows' = rows
                \o <<DirectRow(item.dimensions[1].name, item)>>
                \o [g \in 1..Len(groups) |->
                        DirectRow("  " \o groups[g].dimensions[1].name, groups[g])]
    /\ IF d_order = Len(main_data)
       THEN /\ d_pc' = "done"
            /\ report_data' = ReportData(headers, rows', <<>>)
            /\ status' = StatusOf(report_data')
            /\ UNCHANGED d_order
       ELSE /\ d_order' = d_order + 1
            /\ UNCHANGED <<d_pc, report_data, status>>
    /\ UNCHANGED <<d_clients, d_logins, the_report, headers, gen_pc, hierVars>>
    /\ UNCHANGED <<clientVars, collectVars, pureVars, taskVars>>

\* the fetch of an order's groups raises: None
DirectOrderRaises ==
    /\ d_pc = "details"
    /\ d_calls' = Append(d_calls, ClientCall("get_metrika_data", "detail", d_logins))
    /\ d_pc' = "done"
    /\ report_data' = None
    /\ status' = StatusOf(report_data')
    /\ UNCHANGED <<d_clients, d_logins, d_order, genVars, hierVars>>
    /\ UNCHANGED <<clientVars, collectVars, pureVars, taskVars>>

DirectInit ==
    /\ the_report \in DirectReports
    /\ headers = <<>>
    /\ rows = <<>>
    /\ gen_pc = "off"
    /\ d_pc = "clients"
    /\ d_clients = Pending
    /\ d_logins = <<>>
    /\ d_order = 0
    /\ d_calls = <<>>
    /\ HierOff
    /\ ClientOff
    /\ CollectOff
    /\ OutOff
    /\ PureOff
    /\ TaskOff

DirectNext ==
    \/ DirectGetClients
    \/ DirectMainNoData
    \/ DirectMainRows
    \/ DirectOrderGroups
    \/ DirectOrderRaises

SpecDirect == DirectInit /\ [][DirectNext]_vars

--------------------------------------------------------------------------
\* BackgroundTaskService (services/background_tasks.py) and the handlers of
\* routers/reports.py that start its tasks.  One instance of the service
\* exists (background_tasks.py 186); its tasks run on one event loop, so a
\* task runs without interruption from one await to the next.

ReportIds == 1..MaxReportIds

\* f"report_{report_id}" and f"conclusion_{report_id}"
TaskId(prefix, report_id) == <<prefix, report_id>>

\* mutant: the task id is left in the set
discard_Keeps(tasks, task_id) == tasks

\* set.discard
discard(tasks, task_id) == tasks \ {task_id}

\* a coroutine that loop.create_task scheduled; pc is where it stands:
\* "created" (not started), "skipped" (returned at the duplicate check),
\* "ended" (returned or raised), or the await it is suspended at
Task(kind, report_id) ==
    [kind |-> kind, report_id |-> report_id, pc |-> "created", outcome |-> "none"]

\* loop.create_task(...)
create_task(kind, report_id) == Append(bg_tasks, Task(kind, report_id))

At(t, kind, pc) ==
    /\ t \in DOMAIN bg_tasks
    /\ bg_tasks[t].kind = kind
    /\ bg_tasks[t].pc = pc

Goto(t, pc, outcome) ==
    [bg_tasks EXCEPT ![t] = [@ EXCEPT !.pc = pc, !.outcome = outcome]]

\* ReportRepository.update_report_status: a report that is not found is left alone
update_report_status(report_id, new_status) ==
    IF bg_status[report_id] \in {"new", "deleted"}
    THEN bg_status
    ELSE [bg_status EXCEPT ![report_id] = new_status]

\* POST /reports and POST /reports/{id}/compare: a report with a fresh id is
\* stored with status proceed and its generation is started
CreateNewReport ==
    \E id \in ReportIds :
        /\ Len(bg_tasks) < MaxTasks
        /\ bg_status[id] = "new"
        /\ bg_status' = [bg_status EXCEPT ![id] = "proceed"]
        /\ bg_tasks' = create_task("report", id)
        /\ UNCHANGED running_tasks
        /\ UNCHANGED <<clientVars, genVars, hierVars, collectVars, outVars, pureVars, directVars>>

\* DELETE /reports/{id}
DeleteReport ==
    \E id \in ReportIds :
        /\ bg_status[id] \notin {"new", "deleted"}
        /\ bg_status' = [bg_status EXCEPT ![id] = "deleted"]
        /\ UNCHANGED <<running_tasks, bg_tasks>>
        /\ UNCHANGED <<clientVars, genVars, hierVars, collectVars, outVars, pureVars, directVars>>

\* POST /reports/{id}/retry
RetryReportGeneration ==
    \E id \in ReportIds :
        /\ Len(bg_tasks) < MaxTasks
        /\ bg_status[id] = "failed"
        /\ bg_status' = update_report_status(id, "proceed")
        /\ bg_tasks' = create_task("report", id)
        /\ UNCHANGED running_tasks
        /\ UNCHANGED <<clientVars, genVars, hierVars, collectVars, outVars, pureVars, directVars>>

\* POST /reports/{id}/conclusion and POST /reports/{id}/conclusion/retry
GenerateReportConclusion ==
    \E id \in ReportIds :
        /\ Len(bg_tasks) < MaxTasks
        /\ bg_status[id] = "finish"
        /\ bg_tasks' = create_task("conclusion", id)
        /\ UNCHANGED <<running_tasks, bg_status>>
        /\ UNCHANGED <<clientVars, genVars, hierVars, collectVars, outVars, pureVars, directVars>>

\* process_report_generation up to its first await: the duplicate check, the
\* registration (29-35) and async with SessionLocal() (39), which does not
\* suspend; an exception of it goes to the outer handler (105-108) and the
\* finally clause (110)
ReportStart ==
    \E t \in DOMAIN bg_tasks, raised \in BOOLEAN :
        /\ At(t, "report", "created")
        /\ LET task_id == TaskId("report", bg_tasks[t].report_id) IN
           IF task_id \in running_tasks
           THEN /\ bg_tasks' = Goto(t, "skipped", "already_running")
                /\ UNCHANGED running_tasks
           ELSE IF raised
           THEN /\ running_tasks' = discard(running_tasks \cup {task_id}, task_id)
                /\ bg_tasks' = Goto(t, "ended", "critical")
           ELSE /\ running_tasks' = running_tasks \cup {task_id}
                /\ bg_tasks' = Goto(t, "load", "none")
        /\ UNCHANGED bg_status
        /\ UNCHANGED <<clientVars, genVars, hierVars, collectVars, outVars, pureVars, directVars>>

\* get_report_by_id and the company of the report (49-61)
ReportLoad ==
    \E t \in DOMAIN bg_tasks, raised \in BOOLEAN, company \in BOOLEAN :
        /\ At(t, "report", "load")
        /\ LET id == bg_tasks[t].report_id IN
           IF raised
           THEN /\ bg_tasks' = Goto(t, "handler", "none")
                /\ UNCHANGED bg_status
           ELSE IF bg_status[id] \in {"new", "deleted"}
           THEN /\ bg_tasks' = Goto(t, "close", "report_not_found")
                /\ UNCHANGED bg_status
           ELSE IF ~company
           THEN /\ bg_tasks' = Goto(t, "close", "company_not_found")
                /\ bg_status' = update_report_status(id, "failed")
           ELSE /\ bg_tasks' = Goto(t, "generate", "none")
                /\ UNCHANGED bg_status
        /\ UNCHANGED running_tasks
        /\ UNCHANGED <<clientVars, genVars, hierVars, collectVars, outVars, pureVars, directVars>>

\* _generate_report_data (64-68, 84-89)
ReportGenerate ==
    \E t \in DOMAIN bg_tasks, result \in {"data", "none", "raised"} :
        /\ At(t, "report", "generate")
        /\ LET id == bg_tasks[t].report_id IN
           CASE result = "data" ->
                    /\ bg_tasks' = Goto(t, "save", "none")
                    /\ UNCHANGED bg_status
             [] result = "none" ->
                    /\ bg_tasks' = Goto(t, "close", "no_data")
                    /\ bg_status' = update_report_status(id, "failed")
             [] result = "raised" ->
                    /\ bg_tasks' = Goto(t, "handler", "none")
                    /\ UNCHANGED bg_status
        /\ UNCHANGED running_tasks
        /\ UNCHANGED <<clientVars, genVars, hierVars, collectVars, outVars, pureVars, directVars>>

\* save_report_to_excel, update_report_file, update_report_status and the
\* start of the conclusion for a report that is not a comparison (69-83)
ReportSave ==
    \E t \in DOMAIN bg_tasks, raised \in BOOLEAN, is_compared \in BOOLEAN :
        /\ At(t, "report", "save")
        /\ LET id == bg_tasks[t].report_id IN
           IF raised
           THEN /\ bg_tasks' = Goto(t, "handler", "none")
                /\ UNCHANGED bg_status
           ELSE /\ is_compared \/ Len(bg_tasks) < MaxTasks
                /\ bg_status' = update_report_status(id, "finish")
                /\ bg_tasks' =
                       IF is_compared
                       THEN Goto(t, "close", "success")
                       ELSE Append(Goto(t, "close", "success"), Task("conclusion", id))
        /\ UNCHANGED running_tasks
        /\ UNCHANGED <<clientVars, genVars, hierVars, collectVars, outVars, pureVars, directVars>>

\* except Exception (91-103): the status is set to failed in a session of its
\* own; an exception of the update is logged, one of opening that session
\* leaves the handler
ReportHandler ==
    \E t \in DOMAIN bg_tasks, result \in {"updated", "inner_raised", "session_raised"} :
        /\ At(t, "report", "handler")
        /\ bg_status' =
               IF result = "updated"
               THEN update_report_status(bg_tasks[t].report_id, "failed")
               ELSE bg_status
        /\ bg_tasks' = Goto(t, "close", IF result = "session_raised"
                                        THEN "critical" ELSE "exception")
        /\ UNCHANGED running_tasks
        /\ UNCHANGED <<clientVars, genVars, hierVars, collectVars, outVars, pureVars, directVars>>

\* the session closes and the finally clause runs (110)
ReportClose ==
    \E t \in DOMAIN bg_tasks :
        /\ At(t, "report", "close")
        /\ bg_tasks' = Goto(t, "ended", bg_tasks[t].outcome)
        /\ running_tasks' =
               discard(running_tasks, TaskId("report", bg_tasks[t].report_id))
        /\ UNCHANGED bg_status
        /\ UNCHANGED <<clientVars, genVars, hierVars, collectVars, outVars, pureVars, directVars>>

\* process_conclusion_generation up to its first await: the duplicate check,
\* the registration (146-152), async with SessionLocal() and
\* ConclusionService(report_repo) (155-157); nothing catches an exception of
\* the last two, the coroutine ends with it
ConclusionStart ==
    \E t \in DOMAIN bg_tasks, result \in {"opened", "session_raised", "service_raised"} :
        /\ At(t, "conclusion", "created")
        /\ LET task_id == TaskId("conclusion", bg_tasks[t].report_id) IN
           IF task_id \in running_tasks
           THEN /\ bg_tasks' = Goto(t, "skipped", "already_running")
                /\ UNCHANGED running_tasks
           ELSE /\ running_tasks' = running_tasks \cup {task_id}
                /\ bg_tasks' = IF result = "opened"
                               THEN Goto(t, "generate", "none")
                               ELSE Goto(t, "ended", result)
        /\ UNCHANGED bg_status
        /\ UNCHANGED <<clientVars, genVars, hierVars, collectVars, outVars, pureVars, directVars>>

\* generate_conclusion (160-167): it returns a conclusion or None, or the
\* update in its own handler (conclusion_service.py 84-91) raises
ConclusionGenerate ==
    \E t \in DOMAIN bg_tasks, result \in {"conclusion", "none", "raised"} :
        /\ At(t, "conclusion", "generate")
        /\ bg_tasks' = Goto(t, "ended", result)
        /\ running_tasks' =
               IF result = "raised"
               THEN running_tasks
               ELSE discard(running_tasks, TaskId("conclusion", bg_tasks[t].report_id))
        /\ UNCHANGED bg_status
        /\ UNCHANGED <<clientVars, genVars, hierVars, collectVars, outVars, pureVars, directVars>>

TaskInit ==
    /\ running_tasks = {}
    /\ bg_tasks = <<>>
    /\ bg_status = [id \in ReportIds |-> "new"]
    /\ ClientOff
    /\ GenOff
    /\ HierOff
    /\ CollectOff
    /\ OutOff
    /\ PureOff
    /\ DirectOff

TaskNext ==
    \/ CreateNewReport
    \/ DeleteReport
    \/ RetryReportGeneration
    \/ GenerateReportConclusion
    \/ ReportStart
    \/ ReportLoad
    \/ ReportGenerate
    \/ ReportSave
    \/ ReportHandler
    \/ ReportClose
    \/ ConclusionStart
    \/ ConclusionGenerate

SpecTasks == TaskInit /\ [][TaskNext]_vars

--------------------------------------------------------------------------
\* Properties of get_metrika_data (checked under SpecClient)

Finished == cl_pc = "done"

\* the batch that holds position i of the metric list, and i's place in it
BatchOf(i) == ((i - 1) \div MAX_METRICS_PER_REQUEST) + 1
PlaceInBatch(i) == ((i - 1) % MAX_METRICS_PER_REQUEST) + 1

KeysOf(data) == [j \in 1..Len(data) |-> RowKey(data[j])]

\* every answered batch carries the row keys of the first one, in the same order
SameRowIdentity ==
    \A b \in 1..Len(responses) :
        HasData(responses[b]) => KeysOf(responses[b].data) = KeysOf(responses[1].data)

\* C3: in every row of a response of get_metrika_data for the metric list M, the
\* value at position i is the provider's value for M[i], for every position the
\* row has. Stated here for the runs in which every answered batch has the row
\* keys of the first, so that only failed or dropped batches are at stake.
C3_ValuesAlignedToMetricList ==
    (Finished /\ fetch_result.kind = "Response" /\ SameRowIdentity) =>
        \A j \in 1..Len(fetch_result.data) :
            LET row == fetch_result.data[j] IN
            \A i \in 1..Len(row.metrics) :
                /\ i <= Len(metrics)
                /\ row.metrics[i] = ProviderValue(RowKey(row), metrics[i])

\* all batches of a batched fetch answered with rows, as many as the first
AllBatchesSucceeded ==
    /\ Finished
    /\ IsBatched(metrics)
    /\ Len(responses) = NumBatches(metrics)
    /\ \A b \in 1..Len(responses) :
        /\ HasData(responses[b])
        /\ Len(responses[b].data) = Len(responses[1].data)

\* C4: batching round trip. When every batch succeeds with the same row count,
\* every merged row holds one value per requested metric, and the value at
\* position i is the one the batch holding M[i] reported for M[i] in that row.
C4_BatchRoundTrip ==
    AllBatchesSucceeded =>
        /\ fetch_result.kind = "Response"
        /\ Len(fetch_result.data) = Len(responses[1].data)
        /\ \A j \in 1..Len(fetch_result.data) :
            LET row == fetch_result.data[j] IN
            /\ RowKey(row) = RowKey(responses[1].data[j])
            /\ Len(row.metrics) = Len(metrics)
            /\ \A i \in 1..Len(metrics) :
                /\ row.metrics[i] = responses[BatchOf(i)].data[j].metrics[PlaceInBatch(i)]
                /\ row.metrics[i] =
                     ProviderValue(RowKey(responses[BatchOf(i)].data[j]), metrics[i])

C4_Witness ==
    /\ AllBatchesSucceeded
    /\ Len(metrics) = 45
    /\ NumBatches(metrics) = 3
    /\ Len(fetch_result.data) = 2

\* a batch other than the first failed: timeouts exhausted, non-200, or an error
FailedBatches == {b \in 2..Len(responses) : responses[b].kind \in {"None", "Raised"}}

\* the batches after the first that answered with the row count of the first
JoinedBatches ==
    {b \in 2..Len(responses) :
        HasData(responses[b]) /\ Len(responses[b].data) = Len(responses[1].data)}

\* C5: if a batch other than the first fails, get_metrika_data still returns a
\* response; every row keeps the first batch's values and the values of the
\* batches that succeeded, and holds no value of a failed batch.
C5_LaterBatchFailureDegrades ==
    (Finished /\ IsBatched(metrics) /\ HasData(responses[1]) /\ FailedBatches # {}) =>
        /\ fetch_result.kind = "Response"
        /\ \A j \in 1..Len(fetch_result.data) :
            LET row == fetch_result.data[j] IN
            /\ SubSeq(row.metrics, 1, MAX_METRICS_PER_REQUEST) = responses[1].data[j].metrics
            /\ \A b \in JoinedBatches : \A v \in 1..Len(responses[b].data[j].metrics) :
                \E i \in 1..Len(row.metrics) : row.metrics[i] = responses[b].data[j].metrics[v]
            /\ \A b \in FailedBatches : \A k \in 1..MaxRows :
                \A i \in 1..Len(row.metrics) : \A m \in 1..Len(MetricBatch(metrics, b)) :
                    row.metrics[i] # ProviderValue(k, MetricBatch(metrics, b)[m])

\* C6: in a batched fetch whose first batch fails or returns no rows, the fetch
\* ends without a response (None, or the transport error of that request) and
\* no request for a further batch is issued.
C6_FirstBatchFailureFailsFetch ==
    (IsBatched(metrics) /\ Len(responses) >= 1 /\ ~HasData(responses[1])) =>
        /\ Finished
        /\ fetch_result.kind \in {"None", "Raised"}
        /\ Len(request_log) = 1
        /\ Len(responses) = 1

C6_Witness ==
    /\ IsBatched(metrics)
    /\ Len(responses) = 1
    /\ responses[1].kind = "Response"
    /\ Len(responses[1].data) = 0
    /\ fetch_result = None

IsAttempt(e) == e # "sleep"
AttemptsIn(log) == Cardinality({i \in 1..Len(log) : IsAttempt(log[i])})

\* C7: a request makes at most MAX_RETRY_ATTEMPTS attempts; two consecutive
\* attempts are separated by exactly one delay and the earlier of them timed
\* out; no delay follows the last allowed attempt, whose timeout makes the
\* request return failure; an attempt answered 200 ends the request with that
\* response.
C7_BoundedRetryOnTimeout ==
    \A b \in 1..Len(request_log) :
        LET log == request_log[b] IN
        /\ AttemptsIn(log) <= MAX_RETRY_ATTEMPTS
        /\ \A i \in 1..Len(log) : IsAttempt(log[i]) <=> (i % 2 = 1)
        /\ \A i \in 1..Len(log) : (IsAttempt(log[i]) /\ i < Len(log)) => log[i] = "timeout"
        /\ Len(log) <= 2 * MAX_RETRY_ATTEMPTS - 1
        /\ (AttemptsIn(log) = MAX_RETRY_ATTEMPTS /\ log[Len(log)] = "timeout") =>
              (Len(responses) >= b /\ responses[b] = None)
        /\ (Len(log) > 0 /\ log[Len(log)] = "ok") =>
              (Len(responses) >= b /\ responses[b].kind = "Response")

C7_Witness ==
    /\ Finished
    /\ request_log[Len(request_log)] = <<"timeout", "sleep", "timeout", "sleep", "timeout">>
    /\ responses[Len(responses)] = None

\* C8: a non-200 answer or a transport error ends the request as a failure with
\* that attempt: neither a delay nor another attempt follows it, on whichever
\* attempt it occurs.
C8_NoRetryOnOtherFailure ==
    \A b \in 1..Len(request_log) :
        LET log == request_log[b] IN
        \A i \in 1..Len(log) :
            log[i] \in {"non200", "error"} =>
                /\ i = Len(log)
                /\ Len(responses) >= b
                /\ responses[b] = (IF log[i] = "non200" THEN None ELSE Raised)

C8_Witness ==
    /\ Len(request_log) = 2
    /\ request_log[2] = <<"timeout", "sleep", "non200">>
    /\ Len(responses) >= 2

--------------------------------------------------------------------------
\* Properties of the generators' headers and rows (checked under SpecRows)

\* C2: every row of a report a generator returns has exactly as many cells as
\* the report has headers, for every selection of attributes, goals, derived
\* and additional metrics, and for items with or without metric values.
C2_RowLengthEqualsHeaders ==
    gen_pc = "done" => \A i \in 1..Len(rows) : Len(rows[i]) = Len(headers)

--------------------------------------------------------------------------
\* Properties of _process_hierarchical_data (checked under SpecHier)

Returned == h_pc = "done" /\ h_result.kind = "Result"

\* the first cell of every returned row
ActualLabels == [j \in 1..Len(h_result.rows) |-> h_result.rows[j][1]]

\* the labels of the detail rows that the detail fetch of main row i returned
DetailLabels(i) ==
    IF HasData(details_results[i])
    THEN [d \in 1..Len(details_results[i].data) |->
            "  " \o details_results[i].data[d].dimensions[1].name]
    ELSE <<>>

\* every main row, in arrival order, directly followed by its detail rows
InterleavedLabels ==
    ConcatAll([i \in 1..Len(main_data) |->
        <<main_data[i].dimensions[1].name>> \o DetailLabels(i)])

\* C1: in the rows returned by the hierarchical fetch every main row, in
\* main-row arrival order, is immediately followed by the detail rows returned
\* for its key (labels prefixed with two spaces), before the next main row.
C1_DetailsFollowTheirMainRow ==
    (Returned /\ Len(main_data) > 0) => ActualLabels = InterleavedLabels

\* the detail fetches that ended without rows: no data, None, or an exception
FailedDetails ==
    {i \in 1..Len(task) : task[i] \in {"done", "raised"} /\ ~HasData(details_results[i])}

\* C9: a detail fetch that returns no data or fails contributes no rows and
\* does not fail the hierarchy fetch: all main rows and the detail rows of
\* every other main key are returned.
C9_DetailFailureIsIsolated ==
    (h_pc = "done" /\ Len(main_data) > 0 /\ FailedDetails # {}) =>
        /\ h_result.kind = "Result"
        /\ Len(ActualLabels) = Len(InterleavedLabels)
        /\ Range(ActualLabels) = Range(InterleavedLabels)

InFlight == {i \in 1..Len(task) : task[i] = "inflight"}

\* C10: at every moment at most 5 detail fetches are in flight, for any number
\* of main rows.
C10_AtMostFiveInFlight == Cardinality(InFlight) <= 5

\* five fetches in flight, the sixth among them, after the first has finished
C10_Witness ==
    /\ Len(task) >= 6
    /\ Cardinality(InFlight) = 5
    /\ task[6] = "inflight"
    /\ task[1] \in {"done", "raised"}

--------------------------------------------------------------------------
\* Properties of the multi-source collection (checked under SpecCollect)

\* C11: every value of report.source that the provider invocation of a source
\* entry reads equals that entry's own traffic_kind, for any number of entries
\* and any interleaving of the tasks.
C11_InvocationSeesOwnKind ==
    \A i \in 1..Len(seen) : \A r \in 1..Len(seen[i]) :
        seen[i][r] = sources[i].traffic_kind

\* C12: when collect_reports returns (with its list or with an exception),
\* report.source has the value it had when collect_reports was called.
C12_SourceRestoredAtReturn ==
    c_pc \in {"returned", "raised"} => source_at_return = source_before

Invoking == {i \in 1..Len(c_task) : c_task[i] = "running"}

\* C13: at every moment at most 5 provider invocations are running, and every
\* entry that waits for a slot eventually has its provider invoked: from some
\* moment on no entry is waiting or not yet started.
C13_BoundedInvocations ==
    /\ [](Cardinality(Invoking) <= 5)
    /\ <>[](/\ c_pc # "idle"
            /\ \A i \in 1..Len(c_task) : c_task[i] \in {"running", "done"})

\* five invocations are running, among them the sixth entry's, which had to
\* wait until the first entry's invocation ended
C13_Witness ==
    /\ Len(c_task) >= 6
    /\ Cardinality(Invoking) = 5
    /\ c_task[6] = "running"
    /\ c_task[1] = "done"

Producers == {i \in 1..Len(c_results) : c_results[i].kind = "Item"}

\* the k-th entry, in list order, whose run_one returned data
KthProducer(k) ==
    CHOOSE i \in Producers : Cardinality({j \in Producers : j <= i}) = k

\* C14: the list collect_reports returns leaves out every source that yielded
\* no data and holds, in source order, one (provider, report) entry for every
\* source that produced data.
C14_NoDataSourcesOmitted ==
    c_pc = "returned" =>
        /\ Len(collected) = Cardinality(Producers)
        /\ \A k \in 1..Len(collected) :
            /\ collected[k] = c_results[KthProducer(k)]
            /\ collected[k].provider = sources[KthProducer(k)].provider

\* a returned list for a source whose provider returned nothing followed by a
\* source with data
C14_Witness ==
    /\ c_pc = "returned"
    /\ \E i \in 1..Len(c_results) :
        /\ c_results[i] = None
        /\ HasProvider(sources[i])
        /\ \E j \in Producers : i < j
    /\ Len(collected) < Len(sources)

\* C15: in a multi-source generation a source that fails, by returning no data
\* or by raising, affects only its own branch: once every source has ended and
\* at least one produced data, the generation has returned the merged report
\* of the sources that produced data.
C15_FailureStaysInBranch ==
    (/\ status # "proceed"
     /\ \A i \in 1..Len(c_task) : c_task[i] = "done"
     /\ Producers # {})
        => report_data = union_merge(CollectedOf(c_results))

\* the number of merged rows that come before the rows of result r
RowsBefore(r) == SumSeq([q \in 1..(r - 1) |-> Len(collected[q].data.rows)])

\* C16: the merge of a non-empty result list has the provider column followed
\* by the first result's headers, and exactly the rows of every result in
\* result order then row order, each with its provider in front; the row count
\* is the sum of the results' row counts.
C16_UnionMergeKeepsRows ==
    (c_pc = "returned" /\ collected # <<>>) =>
        /\ report_data.headers = <<"Provayder">> \o collected[1].data.headers
        /\ Len(report_data.rows) = RowsBefore(Len(collected) + 1)
        /\ \A r \in 1..Len(collected) : \A j \in 1..Len(collected[r].data.rows) :
            report_data.rows[RowsBefore(r) + j]
                = <<collected[r].provider>> \o collected[r].data.rows[j]

\* two results with 3 and 2 rows merged into 5 rows
C16_Witness ==
    /\ c_pc = "returned"
    /\ Len(collected) = 2
    /\ Len(collected[1].data.rows) = 3
    /\ Len(collected[2].data.rows) = 2
    /\ Len(report_data.rows) = 5

\* C17: when the collection yields zero results the generation fails and
\* returns no report: no table, empty or partial, reaches the caller.
C17_ZeroResultsFail ==
    (c_pc = "returned" /\ collected = <<>>) =>
        /\ report_data = None
        /\ status = "failed"

\* every source ended without data
C17_Witness ==
    /\ c_pc = "returned"
    /\ Len(sources) >= 2
    /\ Producers = {}
    /\ status = "failed"

--------------------------------------------------------------------------
\* Properties of the strategies' results (checked under SpecHier and SpecPaid)

\* C18: when a generation stage returns no data (an empty or absent main-level
\* breakdown in particular) the generation returns no report, and a returned
\* report never has headers and zero rows.
C18_NoDataReturnsNoReport ==
    report_data # Pending =>
        /\ (main_data = <<>> => report_data = None)
        /\ (report_data # None => report_data.rows # <<>>)

\* the per-platform rows the paid strategy built before it collapsed them
PlatformRows == rows

\* the sum of column c over the per-platform rows
ColumnSum(c) == SumSeq([i \in 1..Len(PlatformRows) |-> PlatformRows[i][c]])

\* the paid generation returned a report
PaidReturned == gen_pc = "done" /\ report_data # None /\ report_data # Pending

\* C19: when the paid strategy's main fetch returns k >= 1 rows the report has
\* exactly one row, and each of its base numeric columns (attribute columns and
\* base / goal metric columns) is the sum of that column over the k
\* per-platform rows.
C19_SingleRowOfColumnSums ==
    PaidReturned =>
        /\ Len(main_data) >= 1
        /\ Len(report_data.rows) = 1
        /\ Len(report_data.rows[1]) = Len(PlatformRows[1])
        /\ \A c \in 2..(1 + BaseColumnCount(Gen, Selected, the_report)) :
            report_data.rows[1][c] = ColumnSum(c)

\* several platform rows with a non-zero base column were collapsed, and
\* derived metrics were recomputed for the total row
C19_Witness ==
    /\ PaidReturned
    /\ Len(main_data) >= 2
    /\ the_report.selected_metrics # <<>>
    /\ BaseColumnCount(Gen, Selected, the_report) >= 2
    /\ \E c \in 2..(1 + BaseColumnCount(Gen, Selected, the_report)) :
        /\ report_data.rows[1][c] # PlatformRows[1][c]
        /\ report_data.rows[1][c] # 0

\* the fetched metric values summed over the platform items
AggregatedMetrics ==
    [m \in 1..Len(Selected) |->
        SumSeq([i \in 1..Len(main_data) |-> main_data[i].metrics[m]])]

\* the calculator applied to the aggregated base values: summed cost, clicks,
\* visits, revenue and goal completions
AggregateCalculated ==
    calculate_metrics(_get_metric_value(AggregatedMetrics, Selected, "cost"),
                      _get_metric_value(AggregatedMetrics, Selected, "clicks"),
                      _get_metric_value(AggregatedMetrics, Selected, "visits"),
                      _get_metric_value(AggregatedMetrics, Selected, "goal"),
                      _get_metric_value(AggregatedMetrics, Selected, "revenue"),
                      the_report.selected_metrics)

\* C20: in the paid strategy's aggregate row each user-selected derived metric
\* column holds the calculator's value for the aggregated base values, for
\* every selection of attributes and derived metrics.
C20_DerivedFromAggregates ==
    PaidReturned =>
        \A i \in 1..Len(the_report.selected_metrics) :
            report_data.rows[1][1 + BaseColumnCount(Gen, Selected, the_report) + i]
                = ValueOrZero(AggregateCalculated, the_report.selected_metrics[i])

\* the sums that reach the calculator as cost and revenue are whole numbers:
\* they are read from base columns only
WholeCostAndRevenue ==
    PaidReturned =>
        LET base_data == _extract_base_data_from_row(
                            [c \in 1..Len(PlatformRows[1]) |->
                                IF c = 1 THEN "" ELSE ColumnSum(c)],
                            Selected, the_report,
                            2 + BaseColumnCount(Gen, Selected, the_report))
        IN base_data.cost % 100 = 0 /\ base_data.revenue % 100 = 0

--------------------------------------------------------------------------
\* Properties of the pure functions (checked under SpecPure)

\* the list build_selected_metrics works on before duplicates are removed
Concatenated ==
    p_call.base_metrics \o p_call.goal_metrics
    \o SelectSeq([i \in 1..Len(p_call.selected_attributes) |->
                    IF p_call.selected_attributes[i] \in DOMAIN p_call.attributes_mapping
                    THEN p_call.attributes_mapping[p_call.selected_attributes[i]]
                    ELSE "skipped"],
                 LAMBDA m : m # "skipped")

\* position of the first occurrence of m in the list q
FirstAt(q, m) == CHOOSE i \in 1..Len(q) : q[i] = m /\ \A k \in 1..(i - 1) : q[k] # m

SelectReturned == p_call.fn = "build_selected_metrics" /\ p_result # Pending

\* C21: build_selected_metrics returns the base metrics, then the goal metrics,
\* then the mapped metric of every selected attribute that is in the map, with
\* duplicates removed: every metric of that list occurs exactly once, in the
\* order of the first occurrences; empty inputs give the empty list, and
\* base [a, b], goals [c], attrs [x], map {x: b} gives [a, b, c].
C21_ConcatenatedAndDeduplicated ==
    SelectReturned =>
        /\ \A m \in Range(Concatenated) :
                Cardinality({i \in 1..Len(p_result.value) : p_result.value[i] = m}) = 1
        /\ \A i \in 1..Len(p_result.value) : p_result.value[i] \in Range(Concatenated)
        /\ \A i, j \in 1..Len(p_result.value) :
                i < j => FirstAt(Concatenated, p_result.value[i]) < FirstAt(Concatenated, p_result.value[j])
        /\ (p_call.base_metrics = <<>> /\ p_call.goal_metrics = <<>>
                /\ p_call.selected_attributes = <<>>) => p_result.value = <<>>
        /\ (/\ p_call.base_metrics = <<"a", "b">>
            /\ p_call.goal_metrics = <<"c">>
            /\ p_call.selected_attributes = <<"x">>
            /\ p_call.attributes_mapping = [k \in {"x"} |-> "b"]) => p_result.value = <<"a", "b", "c">>

\* the example of the claim: an attribute whose metric is already a base metric
C21_Witness ==
    /\ SelectReturned
    /\ p_call.base_metrics = <<"a", "b">>
    /\ p_call.goal_metrics = <<"c">>
    /\ p_call.selected_attributes = <<"x">>
    /\ p_call.attributes_mapping = [k \in {"x"} |-> "b"]
    /\ p_result.value = <<"a", "b", "c">>

DerivedReturned == p_call.fn \in DerivedFns /\ p_result # Pending

\* C22: each derived-metric function returns exactly 0 when its denominator is
\* zero, for every value of its numerator.
C22_ZeroDenominatorGivesZero ==
    (DerivedReturned /\ p_call.second = 0) => p_result.value = 0

\* cpc(cost, 0) was computed for a non-zero cost
C22_Witness ==
    /\ DerivedReturned
    /\ p_call.fn = "cpc"
    /\ p_call.first # 0
    /\ p_call.second = 0
    /\ p_result.value = 0

\* the value of the formula of a key on the aggregates of the call, 0 where
\* the denominator is zero
FormulaValue(key) ==
    CASE key = "cpc" -> calculate_cpc(p_call.cost, p_call.clicks)
      [] key = "cr"  -> calculate_cr(p_call.goal_achieved, p_call.visits)
      [] key = "roi" -> calculate_roi(p_call.revenue, p_call.cost)
      [] key = "cpa" -> calculate_cpa(p_call.cost, p_call.goal_achieved)

\* C23: calculate_metrics computes exactly the requested subset: every
\* requested key is in the result with the value of its formula on the given
\* aggregates (0 where the denominator is zero), and every key that was not
\* requested is absent from the result.
C23_ExactlyTheRequestedKeys ==
    (p_call.fn = "calculate_metrics" /\ p_result # Pending) =>
        \A key \in KeyChoices :
            IF key \in Range(p_call.selected_metrics)
            THEN key \in DOMAIN p_result.value /\ p_result.value[key] = FormulaValue(key)
            ELSE key \notin DOMAIN p_result.value

--------------------------------------------------------------------------
\* Properties of the direct strategy (checked under SpecDirect)

\* the positions of d_calls that are metric fetches
MetricFetches == {i \in 1..Len(d_calls) : d_calls[i].call = "get_metrika_data"}

\* no client scope is resolvable: the lookup failed, has no clients, or no
\* client has a login
NoClientScope ==
    \/ d_clients \in {Raised, None}
    \/ "clients" \notin DOMAIN d_clients
    \/ \A i \in 1..Len(d_clients.clients) : "chief_login" \notin DOMAIN d_clients.clients[i]

\* C24: the direct strategy looks the client scope up (get_clients) before any
\* metric fetch, and when no client scope is resolvable the generation fails
\* without issuing any metric fetch.
C24_ClientScopeBeforeFetch ==
    /\ \A i \in MetricFetches :
            /\ \E j \in 1..(i - 1) : d_calls[j].call = "get_clients"
            /\ d_calls[i].logins # <<>>
    /\ (d_pc \notin {"off", "clients"} /\ NoClientScope) =>
            /\ d_pc = "done"
            /\ report_data = None
            /\ status = "failed"
            /\ MetricFetches = {}

\* the lookup answered with clients none of which has a login, and the
\* generation failed after that single call
C24_Witness ==
    /\ d_pc = "done"
    /\ "clients" \in DOMAIN d_clients
    /\ Len(d_clients.clients) >= 1
    /\ NoClientScope
    /\ Len(d_calls) = 1
    /\ status = "failed"

--------------------------------------------------------------------------
\* Properties of the free strategy's main filter (checked under SpecCollect)

\* the Yandex entries whose provider invocation has issued its main fetch
Fetching == {i \in 1..Len(sources) :
                sources[i].provider = "yandex_metrika" /\ i <= Len(seen) /\ seen[i] # <<>>}

\* C25: a generation with traffic kind free issues its main-level fetch with
\* the filter that excludes ad-sourced traffic, and a generation with traffic
\* kind all issues it without that filter, also when free and all generations
\* run concurrently through the same provider.
C25_MainFilterFollowsKind ==
    \A i \in Fetching :
        /\ sources[i].traffic_kind = "free" =>
                /\ YandexGenerator(seen[i][1]).strategy = "free"
                /\ MainFilter(i) = Filter(EXCLUDE_AD)
        /\ sources[i].traffic_kind = "all" =>
                /\ YandexGenerator(seen[i][1]).strategy = "free"
                /\ MainFilter(i) = None

--------------------------------------------------------------------------
\* Properties of merge_metric_batches on disagreeing batches (checked under
\* SpecClient)

\* a batched fetch that returned a response
MergedReturned == Finished /\ IsBatched(metrics) /\ fetch_result.kind = "Response"

\* the later batches that answered with rows, but not as many as the first
SizeMismatched ==
    {b \in 2..Len(responses) :
        HasData(responses[b]) /\ Len(responses[b].data) # Len(responses[1].data)}

\* the later batches that answered with as many rows as the first, but with
\* another key at some row index
IdentityMismatched ==
    {b \in 2..Len(responses) :
        /\ HasData(responses[b])
        /\ Len(responses[b].data) = Len(responses[1].data)
        /\ KeysOf(responses[b].data) # KeysOf(responses[1].data)}

\* the merged row holds a value the provider reported for a metric of batch b
HoldsValueOf(row, b) ==
    \E i \in 1..Len(row.metrics) : \E k \in 1..MaxRows :
        \E m \in 1..Len(MetricBatch(metrics, b)) :
            row.metrics[i] = ProviderValue(k, MetricBatch(metrics, b)[m])

\* C26: when a later batch has a different number of rows than the base batch,
\* every base row whose index is present in both responses is extended with
\* that batch's values, and only the rows whose index is missing from the
\* batch response are left unextended for that batch.
C26_SizeMismatchExtendsCommonRows ==
    MergedReturned =>
        \A b \in SizeMismatched : \A j \in 1..Len(fetch_result.data) :
            LET row == fetch_result.data[j] IN
            IF j <= Len(responses[b].data)
            THEN \A v \in 1..Len(responses[b].data[j].metrics) :
                    \E i \in 1..Len(row.metrics) :
                        row.metrics[i] = responses[b].data[j].metrics[v]
            ELSE ~HoldsValueOf(row, b)

\* C27: when a later batch's row identity disagrees with the base batch (same
\* row count, another dimension key at some row index), that batch's columns
\* are dropped from the merged rows and the fetch returns a response; no row
\* holds a value of another dimension key.
C27_IdentityMismatchDropsBatch ==
    (Finished /\ IsBatched(metrics) /\ HasData(responses[1])
        /\ \A b \in 1..Len(responses) : responses[b] # Raised) =>
        /\ fetch_result.kind = "Response"
        /\ \A j \in 1..Len(fetch_result.data) :
            LET row == fetch_result.data[j] IN
            /\ \A b \in IdentityMismatched : ~HoldsValueOf(row, b)
            /\ \A i \in 1..Len(row.metrics) : \E m \in 1..Len(metrics) :
                    row.metrics[i] = ProviderValue(RowKey(row), metrics[m])

--------------------------------------------------------------------------
\* Properties of the order of the collected results (checked under SpecCollect)

\* the first listed entry whose run_one returned data
FirstProducer == CHOOSE i \in Producers : \A j \in Producers : i <= j

\* the rows of the entries with data, in list order, each behind its provider
RECURSIVE RowsInListOrder(_)
RowsInListOrder(n) ==
    IF n = 0 THEN <<>>
    ELSE RowsInListOrder(n - 1)
         \o (IF n \in Producers
             THEN [j \in 1..Len(c_results[n].data.rows) |->
                      <<sources[n].provider>> \o c_results[n].data.rows[j]]
             ELSE <<>>)

\* C28: collect_reports returns its results in the order of the sources list,
\* whatever the order in which the invocations complete: the merged report
\* takes its headers from the first listed source that produced data and holds
\* the sources' rows grouped by source in list order.
C28_ListOrderNotCompletionOrder ==
    (c_pc = "returned" /\ Producers # {}) =>
        /\ \A k \in 1..(Len(collected) - 1) :
                \E i, j \in Producers :
                    /\ i < j
                    /\ collected[k] = c_results[i]
                    /\ collected[k + 1] = c_results[j]
        /\ collected[1] = c_results[FirstProducer]
        /\ report_data.headers = <<"Provayder">> \o c_results[FirstProducer].data.headers
        /\ report_data.rows = RowsInListOrder(Len(c_results))

\* two sources with different reports returned data, the one listed second
\* ended while the first was still running
C28_Witness ==
    /\ c_pc = "returned"
    /\ overtaken
    /\ Len(sources) = 2
    /\ Producers = {1, 2}
    /\ c_results[1] # c_results[2]
    /\ report_data.headers = <<"Provayder">> \o c_results[1].data.headers

--------------------------------------------------------------------------
\* Properties of BackgroundTaskService.running_tasks (checked under SpecTasks)

\* the tasks of a kind and report id that are past the duplicate check and
\* have not ended
Executing(kind, report_id) ==
    {t \in DOMAIN bg_tasks :
        /\ bg_tasks[t].kind = kind
        /\ bg_tasks[t].report_id = report_id
        /\ bg_tasks[t].pc \notin {"created", "skipped", "ended"}}

\* C29: running_tasks holds "report_<id>" exactly while one
\* process_report_generation of that id is past its duplicate check and has
\* not ended: never two of them at once, and the id is gone after every exit
\* (success, no data, missing report or company, any exception); a call made
\* meanwhile returns at the check and changes nothing.
C29_ReportIdHeldExactlyWhileRunning ==
    /\ [](\A id \in ReportIds :
            /\ Cardinality(Executing("report", id)) <= 1
            /\ (TaskId("report", id) \in running_tasks) <=> (Executing("report", id) # {}))
    /\ [][\A t \in DOMAIN bg_tasks :
            (bg_tasks[t].kind = "report" /\ bg_tasks[t].pc = "created"
                /\ bg_tasks'[t].pc = "skipped")
            => (/\ Executing("report", bg_tasks[t].report_id) # {}
                /\ UNCHANGED <<running_tasks, bg_status>>)]_vars

\* a generation ended through its exception handler and its id is free again,
\* after a retry made meanwhile was turned away at the duplicate check
C29_Witness ==
    \E t, u \in DOMAIN bg_tasks :
        /\ bg_tasks[t].kind = "report"
        /\ bg_tasks[t].pc = "ended"
        /\ bg_tasks[t].outcome = "exception"
        /\ bg_tasks[u].kind = "report"
        /\ bg_tasks[u].report_id = bg_tasks[t].report_id
        /\ bg_tasks[u].pc = "skipped"
        /\ TaskId("report", bg_tasks[t].report_id) \notin running_tasks

\* C30: once every process_conclusion_generation of a report has ended, by a
\* return or by an exception, "conclusion_<id>" is not in running_tasks.
C30_ConclusionIdFreedOnEveryExit ==
    \A id \in ReportIds :
        (TaskId("conclusion", id) \in running_tasks) => (Executing("conclusion", id) # {})

==========================================================================
